---- MODULE Spec2Model ----
(***************************************************************************)
(* A model of boilmaster's search subsystem: the per-sheet tantivy index   *)
(* (ingest + search), the query resolver, the search service's `search`    *)
(* and its background ingestion loop `start`.                              *)
(***************************************************************************)
EXTENDS Integers, Sequences, FiniteSets, TLC

VARIABLES
    rows,       \* the data source: per <<sheet, language>> the row keys it holds
    index,      \* per sheet name: the committed documents of its partition
    meta,       \* the provider's ingested-bookkeeping: the set of sheet keys
    ioFail,     \* the partitions whose searcher fails with an I/O error
    srcFail,    \* the sheets the data source fails to read (an I/O error)
    config,     \* Search.pagination_config: limit_default and limit_max
    icall,      \* the last Index-level call and its outcome
    rcall,      \* the last QueryResolver call and its outcome
    scall,      \* the last Search::search call and its outcome
    pc,         \* Search::start: the position of the background loop
    cancelled,  \* the cancellation token given to Search::start
    published,  \* the watch channel: the version set last published
    changed,    \* the watch receiver: a value was published it has not seen
    avail,      \* the data source: the versions Data::version returns
    ingestArg,  \* the version set handed to the ingest in flight (or last)
    ingests,    \* how many Search::ingest calls start has begun (saturating)
    waits,      \* how many times start reached its wait point (saturating)
    failed,     \* some ingest call made by start returned an error
    result,     \* what Search::start returned
    tx,         \* per Index::ingest call in progress: its position and writes
    lock,       \* per partition: the call that holds its index writer (0: none)
    reader,     \* per partition: the committed documents its reader has loaded
    view,       \* the searcher a search in progress acquired (at most one)
    repository, \* the response thaliak gives for the repository asked about
    plist       \* the patch_list call: its position, patches, next_version

vars == <<rows, index, meta, ioFail, srcFail, config, icall, rcall, scall, pc, cancelled,
          published, changed, avail, ingestArg, ingests, waits, failed,
          result, tx, lock, reader, view, repository, plist>>

\* What is fixed when the service is built and its data source opened.
envVars == <<rows, ioFail, srcFail, config>>
indexVars == <<envVars, index, meta, icall>>
txVars == <<tx, lock, reader, view>>
patchVars == <<repository, plist>>
loopVars == <<pc, cancelled, published, changed, avail, ingestArg, ingests,
              waits, failed, result>>

----------------------------------------------------------------------------
(* Bounds of the model.                                                    *)

\* Width in bits of the model's u64 (the code's is 64); i64 is one bit less.
ValueBits == 4
\* Row ids run over 1..MaxRowId (u32 in the code, always below i64::MAX).
MaxRowId == 3
\* At most this many Index::ingest calls in a behaviour of SpecIndex.
MaxIngests == 2

U64Max == 2 ^ ValueBits - 1
I64Max == 2 ^ (ValueBits - 1) - 1
U64 == 0 .. U64Max
RowIds == 1 .. MaxRowId
\* Two opaque version keys.
Versions == {1, 2}

Min(a, b) == IF a <= b THEN a ELSE b

SeqToSet(s) == {s[i] : i \in 1 .. Len(s)}

----------------------------------------------------------------------------
(* The data source (ironworks excel): sheets, columns, languages, rows.    *)

SheetNames == {"A", "B"}
\* A name no version lists (a caller may still put it in a sheet filter).
UnknownSheet == "Z"

\* Sheet A: a reference column X (to B), a signed column S, a text column N.
\* Sheet B: the unsigned column X alone.
Columns(s) ==
    IF s = "A"
    THEN << [name |-> "X", kind |-> "U32"],
            [name |-> "S", kind |-> "I32"],
            [name |-> "N", kind |-> "String"] >>
    ELSE << [name |-> "X", kind |-> "U32"] >>

Languages(s) == IF s = "A" THEN <<"en", "ja">> ELSE <<"en">>

SheetLangs == {<<"A", "en">>, <<"A", "ja">>, <<"B", "en">>}

\* Row keys (row_id, subrow_id) a sheet may hold; row MaxRowId of B has a subrow.
RowKeys(s) ==
    {<<r, 0>> : r \in RowIds} \cup (IF s = "B" THEN {<<MaxRowId, 1>>} ELSE {})

LangCode(l) == IF l = "en" THEN 1 ELSE 2

\* Row::field: the value a row holds in a column, as an ironworks Field.
\* A.X references rows 1, 2, 4, ... of B; B.X is 5 for row 1 and 6 otherwise.
RowField(s, key, col, l) ==
    LET r == key[1] IN
    IF col.name = "X"
    THEN IF s = "A" THEN <<"U32", IF r <= 2 THEN r ELSE r + 1>>
                    ELSE <<"U32", IF r = 1 THEN 5 ELSE 6>>
    ELSE IF col.name = "S" THEN <<"I32", r - 2>>
    ELSE <<"String", 10 * LangCode(l) + r>>

\* The rows a sheet yields for one language, in ascending key order.
RECURSIVE SortKeys(_)
SortKeys(ks) ==
    IF ks = {} THEN <<>>
    ELSE LET k == CHOOSE x \in ks :
                    \A y \in ks : x[1] < y[1] \/ (x[1] = y[1] /\ x[2] <= y[2])
         IN <<k>> \o SortKeys(ks \ {k})

SheetRows(s, l) == SortKeys(rows[<<s, l>>])

----------------------------------------------------------------------------
(* The field schema of a partition.                                        *)

SHEET_KEY == <<"sheet_key", "">>
ROW_ID == <<"row_id", "">>
SUBROW_ID == <<"subrow_id", "">>

\* One field per language for a text column, one shared field otherwise.
column_field_name(column, language) ==
    <<column.name, IF column.kind = "String" THEN language ELSE "">>

KindType(kind) ==
    CASE kind = "String" -> "Str"
      [] kind \in {"I8", "I16", "I32", "I64"} -> "I64"
      [] kind = "F32" -> "F64"
      [] OTHER -> "U64"

\* The schema as a set of <<field name, storage type>> pairs.
build_schema(columns, languages) ==
    {<<column_field_name(columns[i], languages[j]), KindType(columns[i].kind)>> :
        i \in 1 .. Len(columns), j \in 1 .. Len(languages)}
    \cup {<<SHEET_KEY, "U64">>, <<ROW_ID, "U64">>, <<SUBROW_ID, "U64">>}

HasField(schema, name) == \E e \in schema : e[1] = name
FieldType(schema, name) == (CHOOSE e \in schema : e[1] = name)[2]

\* Index::new on a fresh directory: the schema of the sheet it is given.
NewSchema(s) == build_schema(Columns(s), Languages(s))

----------------------------------------------------------------------------
(* Documents. A document is the sequence of <<field, value>> pairs added to *)
(* it; a value is <<storage type, number>> (text is coded as a number).     *)

Res(kind, val) == [kind |-> kind, val |-> val]
IsOk(r) == r.kind = "ok"
Fatal(r) == r.kind \in {"Failure", "panic"}
NonFatal(r) == r.kind \in {"SchemaMismatch", "FieldType"}

\* The add_text / add_i64 / add_u64 / add_f64 a Field variant selects.
FieldValue(f) == <<KindType(f[1]), f[2]>>

RECURSIVE HydrateColumns(_, _, _, _, _, _)
HydrateColumns(document, s, key, columns, language, schema) ==
    IF columns = <<>> THEN Res("ok", document)
    ELSE LET column == Head(columns)
             name == column_field_name(column, language)
         IN IF ~HasField(schema, name) THEN Res("panic", <<>>)
            ELSE HydrateColumns(
                    Append(document,
                           <<name, FieldValue(RowField(s, key, column, language))>>),
                    s, key, Tail(columns), language, schema)

hydrate_row_document(document, s, key, columns, language, schema) ==
    HydrateColumns(document, s, key, columns, language, schema)

\* HydrateRows with the entry of a row key replaced by a fresh document on
\* every language (insert instead of or_insert_with).
RECURSIVE HydrateRowsFresh(_, _, _, _, _)
HydrateRowsFresh(documents, s, todo, columns, schema) ==
    IF todo = <<>> THEN Res("ok", documents)
    ELSE LET language == Head(todo)[1]
             key == Head(todo)[2]
             new == hydrate_row_document(<<>>, s, key, columns, language, schema)
         IN IF ~IsOk(new) THEN new
            ELSE HydrateRowsFresh(
                    [k \in DOMAIN documents \cup {key} |->
                        IF k = key THEN new.val ELSE documents[k]],
                    s, Tail(todo), columns, schema)

\* The HashMap of sheet_documents after the language/row loops: a function
\* from the row keys met to their documents, or the panic of a hydration.
RECURSIVE HydrateRows(_, _, _, _, _)
HydrateRows(documents, s, todo, columns, schema) ==
    IF todo = <<>> THEN Res("ok", documents)
    ELSE LET language == Head(todo)[1]
             key == Head(todo)[2]
             old == IF key \in DOMAIN documents THEN documents[key] ELSE <<>>
             new == hydrate_row_document(old, s, key, columns, language, schema)
         IN IF ~IsOk(new) THEN new
            ELSE HydrateRows(
                    [k \in DOMAIN documents \cup {key} |->
                        IF k = key THEN new.val ELSE documents[k]],
                    s, Tail(todo), columns, schema)

RECURSIVE LangRowPairs(_, _)
LangRowPairs(s, languages) ==
    IF languages = <<>> THEN <<>>
    ELSE LET l == Head(languages)
             rs == SheetRows(s, l)
         IN [i \in 1 .. Len(rs) |-> <<l, rs[i]>>] \o LangRowPairs(s, Tail(languages))

EmptyDocs == [k \in {} |-> <<>>]

\* sheet_documents: the documents of a sheet tagged `key`, keyed by row key,
\* or the error of a sheet whose columns, languages or rows cannot be read.
sheet_documents(key, s, schema) ==
    LET built == IF s \in srcFail THEN Res("Failure", <<>>)
                 ELSE HydrateRows(EmptyDocs, s, LangRowPairs(s, Languages(s)),
                                  Columns(s), schema)
    IN IF ~IsOk(built) THEN built
       ELSE Res("ok",
                [k \in DOMAIN built.val |->
                    built.val[k] \o << <<SHEET_KEY, <<"U64", key>>>>,
                                       <<ROW_ID, <<"U64", k[1]>>>>,
                                       <<SUBROW_ID, <<"U64", k[2]>>>> >>])

Reverse(s) == [i \in 1 .. Len(s) |-> s[Len(s) + 1 - i]]

\* documents.into_values(): the documents in the map's iteration order,
\* here ascending or descending by row key.
IntoValues(documents, rev) ==
    LET ks == SortKeys(DOMAIN documents)
        ord == IF rev THEN Reverse(ks) ELSE ks
    IN [i \in 1 .. Len(ord) |-> documents[ord[i]]]

\* The body of Index::ingest: the documents the writer holds when it
\* commits, or the panic that unwinds it. `batch` is a sequence of
\* <<key, sheet name>>.
RECURSIVE IngestRun(_, _, _, _)
IngestRun(written, batch, schema, rev) ==
    IF batch = <<>> THEN Res("ok", written)
    ELSE LET documents == sheet_documents(Head(batch)[1], Head(batch)[2], schema)
         IN IF documents.kind = "panic" THEN documents
            ELSE IF ~IsOk(documents)
                 THEN IngestRun(written, Tail(batch), schema, rev)
                 ELSE IngestRun(written \o IntoValues(documents.val, rev),
                                Tail(batch), schema, rev)

\* Index::ingest on partition p: the partition's committed documents after.
IndexIngest(p, batch, rev) ==
    LET run == IngestRun(<<>>, batch, index[p].schema, rev)
    IN IF IsOk(run)
       THEN Res("ok", index[p].docs \o run.val)
       ELSE run

----------------------------------------------------------------------------
(* Query nodes (post-normalisation) and the tantivy queries they resolve   *)
(* to.                                                                     *)

\* A concrete column reference: a column of a sheet and a language.
FieldRef(name, kind, language) ==
    [column |-> [name |-> name, kind |-> kind], language |-> language]

ValueU64(n) == [t |-> "U64", v |-> n]
Equal(field, n) ==
    [t |-> "leaf", field |-> field, op |-> "equal", value |-> ValueU64(n),
     sheet |-> "", query |-> <<>>, condition |-> <<>>, clauses |-> <<>>]
\* query and condition are sequences of at most one node (Option).
Relation(field, sheet, query, condition) ==
    [t |-> "leaf", field |-> field, op |-> "relation", value |-> ValueU64(0),
     sheet |-> sheet, query |-> <<query>>, condition |-> condition,
     clauses |-> <<>>]
Group(clauses) ==
    [t |-> "group", field |-> FieldRef("", "", ""), op |-> "", value |-> ValueU64(0),
     sheet |-> "", query |-> <<>>, condition |-> <<>>, clauses |-> clauses]

TermQuery(field, value) == [t |-> "term", field |-> field, value |-> value,
                            terms |-> <<>>, clauses |-> <<>>]
TermSetQuery(terms) == [t |-> "termset", field |-> <<"", "">>, value |-> <<"", 0>>,
                        terms |-> terms, clauses |-> <<>>]
BooleanQuery(clauses) == [t |-> "bool", field |-> <<"", "">>, value |-> <<"", 0>>,
                          terms |-> <<>>, clauses |-> clauses]
\* ConstScoreQuery(query, 0.0), the only score the code gives it.
ConstScoreQuery(query) == [t |-> "const", field |-> <<"", "">>, value |-> <<"", 0>>,
                           terms |-> <<>>, clauses |-> <<<<"Must", query>>>>]

DocHas(doc, field, value) == \E i \in 1 .. Len(doc) : doc[i] = <<field, value>>

\* Whether a tantivy query matches a document, and the score it gives it.
\* A term's BM25 weight is taken as 1; a boolean query sums its matching
\* Must and Should clauses; with no Must clause a Should clause has to match.
RECURSIVE Matches(_, _), Score(_, _)
Matches(q, doc) ==
    CASE q.t = "term" -> DocHas(doc, q.field, q.value)
      [] q.t = "termset" ->
            \E i \in 1 .. Len(q.terms) : DocHas(doc, q.terms[i][1], q.terms[i][2])
      [] q.t = "const" -> Matches(q.clauses[1][2], doc)
      [] OTHER ->
            LET cs == q.clauses
                must == {i \in 1 .. Len(cs) : cs[i][1] = "Must"}
                should == {i \in 1 .. Len(cs) : cs[i][1] = "Should"}
                mustnot == {i \in 1 .. Len(cs) : cs[i][1] = "MustNot"}
            IN /\ \A i \in must : Matches(cs[i][2], doc)
               /\ \A i \in mustnot : ~Matches(cs[i][2], doc)
               /\ IF must = {} THEN \E i \in should : Matches(cs[i][2], doc)
                  ELSE TRUE

RECURSIVE SumScores(_, _, _)
SumScores(cs, doc, i) ==
    IF i > Len(cs) THEN 0
    ELSE (IF cs[i][1] \in {"Must", "Should"} /\ Matches(cs[i][2], doc)
          THEN Score(cs[i][2], doc) ELSE 0) + SumScores(cs, doc, i + 1)

Score(q, doc) ==
    CASE q.t = "term" -> 1
      [] q.t = "termset" -> 1
      [] q.t = "const" -> 0
      [] OTHER -> SumScores(q.clauses, doc, 1)

----------------------------------------------------------------------------
(* QueryResolver.                                                          *)

value_to_u64(value) == IF value.t = "U64" THEN <<value.v>> ELSE <<>>

\* value_to_i64 as a wrapping cast (`as i64`) instead of try_into.
value_to_i64_wrapping(value) ==
    IF value.t # "U64" THEN <<>>
    ELSE IF value.v <= I64Max THEN <<value.v>> ELSE <<value.v - 2 ^ ValueBits>>

\* u64 -> i64 try_into: None above i64::MAX.
value_to_i64(value) ==
    IF value.t = "U64" /\ value.v <= I64Max THEN <<value.v>> ELSE <<>>

\* value_to_term: the term <<field, value>>, a FieldType error when the
\* coercion yields None, the todo!() panic for any other storage type.
value_to_term(value, field, schema) ==
    LET field_type == FieldType(schema, field)
    IN CASE field_type = "U64" ->
                LET n == value_to_u64(value)
                IN IF n = <<>> THEN Res("FieldType", <<>>)
                   ELSE Res("ok", <<field, <<"U64", n[1]>>>>)
         [] field_type = "I64" ->
                LET n == value_to_i64(value)
                IN IF n = <<>> THEN Res("FieldType", <<>>)
                   ELSE Res("ok", <<field, <<"I64", n[1]>>>>)
         [] OTHER -> Res("panic", <<>>)

\* RelationTerms taking the subrow id of each result for its row id.
RECURSIVE RelationTermsSubrow(_, _, _)
RelationTermsSubrow(results, field, schema) ==
    IF results = <<>> THEN Res("ok", <<>>)
    ELSE LET term == value_to_term(ValueU64(Head(results).subrow_id), field, schema)
         IN IF ~IsOk(term) THEN term
            ELSE LET rest == RelationTermsSubrow(Tail(results), field, schema)
                 IN IF ~IsOk(rest) THEN rest
                    ELSE Res("ok", <<term.val>> \o rest.val)

\* results.map(value_to_term(U64(row_id))).collect::<Result<Vec<_>, _>>()
RECURSIVE RelationTerms(_, _, _)
RelationTerms(results, field, schema) ==
    IF results = <<>> THEN Res("ok", <<>>)
    ELSE LET term == value_to_term(ValueU64(Head(results).row_id), field, schema)
         IN IF ~IsOk(term) THEN term
            ELSE LET rest == RelationTerms(Tail(results), field, schema)
                 IN IF ~IsOk(rest) THEN rest
                    ELSE Res("ok", <<term.val>> \o rest.val)

\* resolve_relation, given the outcome of the inner executor search.
resolve_relation(relation, field, schema, inner) ==
    IF ~IsOk(inner) THEN Res(inner.kind, <<>>)
    ELSE LET terms == RelationTerms(inner.val, field, schema)
         IN IF ~IsOk(terms) THEN terms
            ELSE IF relation.condition # <<>> THEN Res("panic", <<>>)
            ELSE Res("ok", <<TermSetQuery(terms.val)>>)

\* The partition tag of a sheet of a version, and the sheet it stands for.
SheetOrd(s) == IF s = "A" THEN 0 ELSE 1
SheetKey(version, s) == 2 * version + SheetOrd(s)
KeySheet(key) == IF key % 2 = 0 THEN "A" ELSE "B"

\* doc.get_first(field)?.as_u64(): a sequence of at most one number.
GetU64(doc, field) ==
    LET at == {i \in 1 .. Len(doc) : doc[i][1] = field /\ doc[i][2][1] = "U64"}
    IN IF at = {} THEN <<>>
       ELSE <<doc[CHOOSE i \in at : \A j \in at : i <= j][2][2]>>

\* TopDocs: the addresses of the matching documents, best score first and
\* lowest address first among equals, cut to n of them.
RECURSIVE TopDocs(_, _, _, _)
TopDocs(docs, q, left, n) ==
    IF n = 0 \/ left = {} THEN <<>>
    ELSE LET best == CHOOSE i \in left : \A j \in left :
                        \/ Score(q, docs[i]) > Score(q, docs[j])
                        \/ (Score(q, docs[i]) = Score(q, docs[j]) /\ i <= j)
         IN <<best>> \o TopDocs(docs, q, left \ {best}, n - 1)

\* The occurrence of a group clause (post::Occur: "must", "should",
\* "must_not") as tantivy's Occur.
tantivy_occur(occur) ==
    CASE occur = "must" -> "Must"
      [] occur = "should" -> "Should"
      [] occur = "must_not" -> "MustNot"

\* ClauseStep leaving out a clause that fails non-fatally.
ClauseStepSkipping(occur, sub, rest) ==
    IF Fatal(sub) THEN sub
    ELSE IF ~IsOk(rest) THEN rest
    ELSE IF NonFatal(sub) THEN rest
    ELSE Res("ok", <<BooleanQuery(<<<<tantivy_occur(occur), sub.val[1]>>>>
                                  \o rest.val[1].clauses)>>)

\* One step of the collect of resolve_clause: the clause (occur, sub)
\* before the clauses already collected, or the first error in clause order.
ClauseStep(occur, sub, rest) ==
    IF ~IsOk(sub) THEN sub
    ELSE IF ~IsOk(rest) THEN rest
    ELSE Res("ok", <<BooleanQuery(<<<<tantivy_occur(occur), sub.val[1]>>>>
                                  \o rest.val[1].clauses)>>)

\* The Equal arm of resolve_leaf.
EqualQuery(term) ==
    IF ~IsOk(term) THEN term
    ELSE Res("ok", <<TermQuery(term.val[1], term.val[2])>>)

\* ScopedStep without the sheet key clause.
ScopedStepUntagged(sheet_key, query, rest) ==
    IF Fatal(query) THEN Res(query.kind, <<>>)
    ELSE IF ~IsOk(rest) THEN rest
    ELSE IF NonFatal(query) THEN rest
    ELSE Res("ok",
             << <<"Should", BooleanQuery(<< <<"Must", query.val[1]>> >>)>> >>
             \o rest.val)

\* ScopedStep without the filter: any error ends the collect.
ScopedStepUnfiltered(sheet_key, query, rest) ==
    IF ~IsOk(query) THEN Res(query.kind, <<>>)
    ELSE IF ~IsOk(rest) THEN rest
    ELSE Res("ok",
             << <<"Should", BooleanQuery(<<
                    <<"Must", query.val[1]>>,
                    <<"Must", ConstScoreQuery(
                        TermQuery(SHEET_KEY, <<"U64", sheet_key>>))>> >>)>> >>
             \o rest.val)

\* One step of the map/filter/collect of Index::search: a non-fatal error
\* is dropped, the first Failure (or panic) ends the collect.
ScopedStep(sheet_key, query, rest) ==
    IF Fatal(query) THEN Res(query.kind, <<>>)
    ELSE IF ~IsOk(rest) THEN rest
    ELSE IF NonFatal(query) THEN rest
    ELSE Res("ok",
             << <<"Should", BooleanQuery(<<
                    <<"Must", query.val[1]>>,
                    <<"Must", ConstScoreQuery(
                        TermQuery(SHEET_KEY, <<"U64", sheet_key>>))>> >>)>> >>
             \o rest.val)

\* The second half of Index::search on partition p: the combined query run
\* by the searcher. `limit` is a sequence of at most one number.
\* TopDocs::with_limit panics on a limit of 0 (tantivy asserts limit >= 1).
IndexExecute(p, tantivy_queries, limit) ==
    IF ~IsOk(tantivy_queries) THEN tantivy_queries
    ELSE IF limit = <<0>> THEN Res("panic", <<>>)
    ELSE IF p \in ioFail THEN Res("Failure", <<>>)
    ELSE LET docs == index[p].docs
             tantivy_query == BooleanQuery(tantivy_queries.val)
             hit == {i \in 1 .. Len(docs) : Matches(tantivy_query, docs[i])}
             doc_limit == IF limit = <<>> THEN Cardinality(hit) ELSE limit[1]
             top_docs == TopDocs(docs, tantivy_query, hit, doc_limit)
             ids(d) == <<GetU64(d, SHEET_KEY), GetU64(d, ROW_ID), GetU64(d, SUBROW_ID)>>
         IN IF \E k \in 1 .. Len(top_docs) : <<>> \in SeqToSet(ids(docs[top_docs[k]]))
            THEN Res("panic", <<>>)
            ELSE Res("ok",
                     [k \in 1 .. Len(top_docs) |->
                         LET d == docs[top_docs[k]]
                         IN [score |-> Score(tantivy_query, d),
                             sheet_key |-> ids(d)[1][1],
                             row_id |-> ids(d)[2][1],
                             subrow_id |-> ids(d)[3][1]]])

\* The hits of one partition as SearchResults, before those of the others;
\* a fatal error of one partition ends the call.
HitsStep(hits, rest) ==
    IF ~IsOk(hits) THEN hits
    ELSE IF ~IsOk(rest) THEN rest
    ELSE Res("ok",
             [i \in 1 .. Len(hits.val) |->
                [score |-> hits.val[i].score,
                 sheet |-> KeySheet(hits.val[i].sheet_key),
                 row_id |-> hits.val[i].row_id,
                 subrow_id |-> hits.val[i].subrow_id]]
             \o rest.val)

\* The queries of partition p, each under the version's tag of its sheet.
Scoped(p, version, queries) ==
    LET mine == SelectSeq(queries, LAMBDA q : q[1] = p)
    IN [i \in 1 .. Len(mine) |-> <<SheetKey(version, p), mine[i][2]>>]

\* Stable sort by descending score, then sheet name, then row id.
RECURSIVE MergeSort(_, _)
MergeSort(hits, left) ==
    IF left = {} THEN <<>>
    ELSE LET Before(i, j) ==
                \/ hits[i].score > hits[j].score
                \/ /\ hits[i].score = hits[j].score
                   /\ \/ SheetOrd(hits[i].sheet) < SheetOrd(hits[j].sheet)
                      \/ /\ hits[i].sheet = hits[j].sheet
                         /\ \/ hits[i].row_id < hits[j].row_id
                            \/ (hits[i].row_id = hits[j].row_id /\ i <= j)
             best == CHOOSE i \in left : \A j \in left : Before(i, j)
         IN <<hits[best]>> \o MergeSort(hits, left \ {best})

Truncate(s, limit) ==
    IF limit = <<>> \/ Len(s) <= limit[1] THEN s ELSE SubSeq(s, 1, limit[1])

\* The merge of Provider::search: rank all hits, cut to the limit.
Merge(hits, limit) ==
    IF ~IsOk(hits) THEN hits
    ELSE Res("ok", Truncate(MergeSort(hits.val, DOMAIN hits.val), limit))

RECURSIVE resolve(_, _, _)
RECURSIVE resolve_clause(_, _, _, _)
RECURSIVE resolve_leaf(_, _, _)
RECURSIVE ResolveScoped(_, _, _)
RECURSIVE IndexSearch(_, _, _, _)
RECURSIVE PartitionHits(_, _, _, _)
RECURSIVE ProviderSearch(_, _, _)
RECURSIVE ExecutorSearch(_, _, _)

\* QueryResolver::resolve of a node under a partition's schema.
resolve(node, schema, version) ==
    IF node.t = "group" THEN resolve_clause(node.clauses, 1, schema, version)
    ELSE resolve_leaf(node, schema, version)

\* resolve_clause: clauses i.. of the group, collected until the first error.
resolve_clause(clauses, i, schema, version) ==
    IF i > Len(clauses) THEN Res("ok", <<BooleanQuery(<<>>)>>)
    ELSE ClauseStep(clauses[i][1],
                    resolve(clauses[i][2], schema, version),
                    resolve_clause(clauses, i + 1, schema, version))

resolve_leaf(leaf, schema, version) ==
    IF ~HasField(schema, column_field_name(leaf.field.column, leaf.field.language))
    THEN Res("SchemaMismatch", <<>>)
    ELSE IF leaf.op = "relation"
         THEN resolve_relation(
                leaf, column_field_name(leaf.field.column, leaf.field.language),
                schema, ExecutorSearch(version, leaf.sheet, leaf.query[1]))
         ELSE EqualQuery(value_to_term(
                leaf.value,
                column_field_name(leaf.field.column, leaf.field.language), schema))

\* The map/filter/collect of Index::search over the scoped queries.
ResolveScoped(queries, schema, version) ==
    IF queries = <<>> THEN Res("ok", <<>>)
    ELSE ScopedStep(Head(queries)[1],
                    resolve(Head(queries)[2], schema, version),
                    ResolveScoped(Tail(queries), schema, version))

\* Index::search on partition p.
IndexSearch(p, version, queries, limit) ==
    IndexExecute(p, ResolveScoped(queries, index[p].schema, version), limit)

\* The partitions ps (a sequence of sheet names) that are given a query,
\* each asked through Index::search.
PartitionHits(ps, version, queries, limit) ==
    IF ps = <<>> THEN Res("ok", <<>>)
    ELSE HitsStep(IF Scoped(Head(ps), version, queries) = <<>>
                  THEN Res("ok", <<>>)
                  ELSE IndexSearch(Head(ps), version,
                                   Scoped(Head(ps), version, queries), limit),
                  PartitionHits(Tail(ps), version, queries, limit))

\* Provider::search: fan out per partition, merge, rank, cut to the limit.
ProviderSearch(version, queries, limit) ==
    Merge(PartitionHits(<<"A", "B">>, version, queries, limit), limit)

\* Executor::search of search.rs: the provider's search, the limit passed on.
Executor_search(version, queries, limit) == ProviderSearch(version, queries, limit)

\* The executor call of resolve_relation: the inner query on the target
\* sheet, with no result limit; a target sheet that is not known fails
\* non-fatally.
ExecutorSearch(version, sheet, query) ==
    IF sheet \notin SheetNames THEN Res("SchemaMismatch", <<>>)
    ELSE Executor_search(version, <<<<sheet, query>>>>, <<>>)

----------------------------------------------------------------------------
(* Inputs: the data the source may hold and the queries callers send.      *)

\* Sheet A lacks row 1 in "en" or not, and holds any of rows 1, 2 in "ja";
\* sheet B holds all its rows.
RowChoices ==
    {f \in [SheetLangs -> SUBSET (RowKeys("A") \cup RowKeys("B"))] :
        /\ f[<<"B", "en">>] = RowKeys("B")
        /\ f[<<"A", "en">>] \in {RowKeys("A"), RowKeys("A") \ {<<1, 0>>}}
        /\ f[<<"A", "ja">>] \subseteq {<<1, 0>>, <<2, 0>>}}

FieldX == FieldRef("X", "U32", "en")
FieldS == FieldRef("S", "I32", "en")
FieldN == FieldRef("N", "String", "en")
\* A column no sheet has.
FieldQ == FieldRef("Q", "U32", "en")

\* X = 1 or X = 2 or ...: true of every row of either sheet.
RECURSIVE ShouldEach(_, _)
ShouldEach(field, vs) ==
    IF vs = {} THEN <<>>
    ELSE LET v == CHOOSE x \in vs : \A y \in vs : x <= y
         IN <<<<"should", Equal(field, v)>>>> \o ShouldEach(field, vs \ {v})
MatchAllX == Group(ShouldEach(FieldX, (1 .. MaxRowId + 1) \cup {5, 6}))

EmptyIndex == [p \in SheetNames |-> [schema |-> NewSchema(p), docs |-> <<>>, log |-> <<>>]]

NoCall == [op |-> "none", p |-> "", version |-> 0, batch |-> <<>>,
           queries |-> <<>>, limit |-> <<>>, out |-> Res("none", <<>>)]
NoResolve == [node |-> <<>>, p |-> "", version |-> 0, inner |-> Res("none", <<>>),
              out |-> Res("none", <<>>)]
NoSearch == [version |-> 0, query |-> <<>>, filter |-> <<>>, limit |-> <<>>,
             handed |-> <<>>, sent |-> <<>>, out |-> Res("none", <<>>)]
\* The pagination configuration of the specifications that never page.
NoConfig == [limit_default |-> 1, limit_max |-> 1]

\* The calls of Index::ingest that may overlap.
TxIds == {1, 2}
NoTx == [pc |-> "idle", p |-> "", batch |-> <<>>, todo |-> <<>>, pending |-> <<>>,
         out |-> "none"]
\* No patch_list call was made.
NoPatchList == [pc |-> "idle", patches |-> <<>>, next_version |-> <<>>,
                out |-> Res("none", <<>>)]
PatchIdle == repository = [kind |-> "none"] /\ plist = NoPatchList

\* No ingest in progress, no writer held, fresh readers, no searcher.
TxIdle ==
    /\ tx = [i \in TxIds |-> NoTx]
    /\ lock = [p \in SheetNames |-> 0]
    /\ reader = [p \in SheetNames |-> <<>>]
    /\ view = <<>>

\* The loop of Search::start before it is spawned; every version is ready.
LoopIdle ==
    /\ pc = "idle" /\ cancelled = FALSE /\ published = <<>> /\ changed = FALSE
    /\ avail = Versions /\ ingestArg = <<>> /\ ingests = 0 /\ waits = 0
    /\ failed = FALSE /\ result = "none"

----------------------------------------------------------------------------
(* SpecIndex: Index::ingest and Index::search called on the partitions.    *)

\* X = 1 or X = 2 or S = 0: the row with X = 2 and S = 0 scores highest.
RankedXS ==
    Group(<< <<"should", Equal(FieldX, 1)>>, <<"should", Equal(FieldX, 2)>>,
             <<"should", Equal(FieldS, 0)>> >>)
\* A.X refers to a row of B with X = 6; needs a search of partition B.
RelatedB == Relation(FieldX, "B", Equal(FieldX, 6), <<>>)

IndexNodes ==
    {MatchAllX, Equal(FieldX, 6), Equal(FieldQ, 1), Equal(FieldS, U64Max),
     RankedXS, RelatedB}

\* The scoped queries given to one Index::search: pairs of a sheet key (k
\* for the version searched, k2 for the other version) and a node.
ScopedQueries(k, k2) ==
    { <<<<k, MatchAllX>>>>,
      <<<<k, Equal(FieldX, 6)>>>>,
      <<<<k, Equal(FieldX, 6)>>, <<k2, MatchAllX>>>>,
      <<<<k, Equal(FieldQ, 1)>>, <<k, Equal(FieldS, U64Max)>>, <<k, RankedXS>>>>,
      <<<<k, MatchAllX>>, <<k, RelatedB>>, <<k, Equal(FieldQ, 1)>>>>,
      <<<<k, Equal(FieldQ, 1)>>, <<k, RelatedB>>>> }

\* The <<queries, limit>> given to one Index::search: any of the scoped
\* queries without a limit, and the one- and three-query ones with a limit
\* of 0 or 1.
SearchInputs(k, k2) ==
    {<<queries, <<>>>> : queries \in ScopedQueries(k, k2)}
    \cup {<<queries, <<n>>>> : queries \in {qs \in ScopedQueries(k, k2) : Len(qs) # 2},
                              n \in 0 .. 1}

\* The batches given to a partition: version 1 of its sheet, or both versions.
Batches(p) ==
    {<<<<SheetKey(1, p), p>>>>, <<<<SheetKey(1, p), p>>, <<SheetKey(2, p), p>>>>}

Ingested == Len(index["A"].log) + Len(index["B"].log)

\* Index::ingest(sheets) on partition p. A panic unwinds before the commit
\* and leaves the committed documents as they were.
Ingest(p, batch) ==
    /\ icall.op = "none"
    /\ Ingested < MaxIngests
    /\ LET after == IndexIngest(p, batch, FALSE)
       IN /\ index' = IF IsOk(after)
                      THEN [index EXCEPT ![p].docs = after.val,
                                         ![p].log = Append(@, batch)]
                      ELSE index
          /\ icall' = [NoCall EXCEPT !.op = "ingest", !.p = p, !.batch = batch,
                                     !.out = Res(after.kind, <<>>)]
    /\ UNCHANGED <<patchVars, txVars, envVars, meta, rcall, scall, loopVars>>

\* Index::search(version, queries, limit, executor) on partition p.
IndexSearchCall(p, version, queries, limit) ==
    /\ icall.op = "none"
    /\ icall' = [NoCall EXCEPT !.op = "search", !.p = p, !.version = version,
                               !.queries = queries, !.limit = limit,
                               !.out = IndexSearch(p, version, queries, limit)]
    /\ UNCHANGED <<patchVars, txVars, envVars, index, meta, rcall, scall, loopVars>>

\* The call returns to its caller, which may call again.
IndexReturn ==
    /\ icall.op # "none"
    /\ icall' = NoCall
    /\ UNCHANGED <<patchVars, txVars, envVars, index, meta, rcall, scall, loopVars>>

InitIndex ==
    /\ rows \in {f \in RowChoices : f[<<"A", "ja">>] = {<<1, 0>>, <<2, 0>>}}
    /\ index = EmptyIndex
    /\ meta = {}
    /\ ioFail \in {{}, {"B"}}
    /\ ioFail # {} => rows[<<"A", "en">>] = RowKeys("A")
    /\ srcFail = {}
    /\ config = NoConfig
    /\ icall = NoCall
    /\ rcall = NoResolve
    /\ scall = NoSearch
    /\ TxIdle
    /\ PatchIdle
    /\ LoopIdle

NextIndex ==
    \/ \E p \in SheetNames : \E batch \in Batches(p) : Ingest(p, batch)
    \/ \E p \in SheetNames, version \in Versions :
        \E input \in SearchInputs(SheetKey(version, p), SheetKey(3 - version, p)) :
            IndexSearchCall(p, version, input[1], input[2])
    \/ IndexReturn

SpecIndex == InitIndex /\ [][NextIndex]_vars

----------------------------------------------------------------------------
(* Claims about Index::ingest and Index::search.                           *)

Docs(p) == index[p].docs
\* The <<tag, row_id, subrow_id>> a committed document is found under.
DocIds(d) == <<GetU64(d, SHEET_KEY), GetU64(d, ROW_ID), GetU64(d, SUBROW_ID)>>
CountField(d, field) == Cardinality({i \in 1 .. Len(d) : d[i][1] = field})

\* How many sheets tagged k the committed ingests of partition p held.
RECURSIVE TagCount(_, _)
TagCount(batches, k) ==
    IF batches = <<>> THEN 0
    ELSE Cardinality({i \in 1 .. Len(Head(batches)) : Head(batches)[i][1] = k})
         + TagCount(Tail(batches), k)

\* The row keys of a sheet over all its languages.
SheetKeys(s) == UNION {rows[<<s, l>>] : l \in SeqToSet(Languages(s))}

\* C3 (as claimed): however often the same sheets are ingested, a partition
\* holds at most one committed document per (tag, row_id, subrow_id).
C3_ReingestNoDuplicates ==
    \A p \in SheetNames : \A i, j \in 1 .. Len(Docs(p)) :
        i # j => DocIds(Docs(p)[i]) # DocIds(Docs(p)[j])

\* C4: when a partition has ingested the sheet tagged k once, it holds one
\* document per row key of the sheet over all languages, each with one
\* sheet-key, row_id and subrow_id value and the fields of every language
\* the row has; an unlimited search matching all of them returns one hit
\* per row key.
C4_OneDocPerRowKey ==
    \A p \in SheetNames : \A v \in Versions :
        LET k == SheetKey(v, p)
            tagged == {i \in 1 .. Len(Docs(p)) :
                        DocHas(Docs(p)[i], SHEET_KEY, <<"U64", k>>)}
        IN TagCount(index[p].log, k) = 1 =>
            /\ \A key \in SheetKeys(p) :
                Cardinality({i \in tagged :
                    DocIds(Docs(p)[i]) = <<<<k>>, <<key[1]>>, <<key[2]>>>>}) = 1
            /\ \A i \in tagged :
                LET d == Docs(p)[i]
                    key == <<DocIds(d)[2][1], DocIds(d)[3][1]>>
                IN /\ CountField(d, SHEET_KEY) = 1
                   /\ CountField(d, ROW_ID) = 1
                   /\ CountField(d, SUBROW_ID) = 1
                   /\ key \in SheetKeys(p)
                   /\ \A l \in SeqToSet(Languages(p)) : \A c \in SeqToSet(Columns(p)) :
                        key \in rows[<<p, l>>] =>
                            DocHas(d, column_field_name(c, l),
                                   FieldValue(RowField(p, key, c, l)))
            /\ (/\ icall.op = "search" /\ icall.p = p /\ IsOk(icall.out)
                /\ icall.limit = <<>> /\ icall.queries = <<<<k, MatchAllX>>>>)
               => /\ Len(icall.out.val) = Cardinality(SheetKeys(p))
                  /\ {<<h.row_id, h.subrow_id>> : h \in SeqToSet(icall.out.val)}
                        = SheetKeys(p)
                  /\ \A h \in SeqToSet(icall.out.val) : h.sheet_key = k

\* What compiling the i-th scoped query of the last search gives, and the
\* scoped queries that compile.
Compiled(i) == resolve(icall.queries[i][2], index[icall.p].schema, icall.version)
CompiledAll == [i \in 1 .. Len(icall.queries) |-> Compiled(i)]
Compiling ==
    LET c == CompiledAll
        RECURSIVE Keep(_)
        Keep(i) == IF i > Len(icall.queries) THEN <<>>
                   ELSE (IF IsOk(c[i]) THEN <<icall.queries[i]>> ELSE <<>>)
                        \o Keep(i + 1)
    IN Keep(1)

\* C11: when no scoped query of a search fails fatally, the call gives
\* what a search of just the scoped queries that compile gives, and succeeds
\* whenever the searcher can run; when the first fatal outcome is a Failure,
\* the call returns that Failure and no hits.
C11_NonFatalScopedDropped ==
    icall.op = "search" =>
        LET n == Len(icall.queries)
            c == CompiledAll
        IN /\ (\A i \in 1 .. n : ~Fatal(c[i])) =>
                /\ icall.out = IndexSearch(icall.p, icall.version, Compiling, icall.limit)
                /\ (icall.limit # <<0>> /\ icall.p \notin ioFail) => IsOk(icall.out)
           /\ (\E i \in 1 .. n : /\ c[i].kind = "Failure"
                                 /\ \A j \in 1 .. i - 1 : ~Fatal(c[j]))
                => icall.out = Res("Failure", <<>>)

\* C11 witness: a search of partition A whose first two scoped queries fail
\* non-fatally (no field Q, S is not unsigned) and whose third returns hits.
C11_Witness ==
    /\ icall.op = "search" /\ icall.p = "A" /\ Len(icall.queries) = 3
    /\ Compiled(1).kind = "SchemaMismatch" /\ Compiled(2).kind = "FieldType"
    /\ IsOk(Compiled(3)) /\ IsOk(icall.out) /\ Len(icall.out.val) = 2

\* The query a search runs when its scoped queries compile, the committed
\* documents of its partition that match it, and a document's score.
RunQuery == BooleanQuery(ResolveScoped(icall.queries, index[icall.p].schema,
                                       icall.version).val)
Matching == {i \in 1 .. Len(Docs(icall.p)) : Matches(RunQuery, Docs(icall.p)[i])}
DocScore(i) == Score(RunQuery, Docs(icall.p)[i])

\* C12 (as claimed): a search whose queries compile and whose searcher runs
\* returns hits in non-increasing score order; with limit Some(n) it
\* returns min(n, matching documents) hits, with limit None all of them;
\* every hit is a matching document with its score, and every matching
\* document that scores above the last hit is among the hits.
C12_RankedAndLimited ==
    (/\ icall.op = "search" /\ icall.p \notin ioFail
     /\ \A i \in 1 .. Len(icall.queries) : ~Fatal(Compiled(i)))
    => /\ IsOk(icall.out)
       /\ LET hits == icall.out.val
              n == Cardinality(Matching)
          IN /\ \A i \in 1 .. Len(hits) - 1 : hits[i].score >= hits[i + 1].score
             /\ Len(hits) = IF icall.limit = <<>> THEN n ELSE Min(icall.limit[1], n)
             /\ \A k \in 1 .. Len(hits) : \E i \in Matching :
                    /\ DocIds(Docs(icall.p)[i])
                        = <<<<hits[k].sheet_key>>, <<hits[k].row_id>>, <<hits[k].subrow_id>>>>
                    /\ DocScore(i) = hits[k].score
             /\ Len(hits) > 0 =>
                    Cardinality({i \in Matching : DocScore(i) > hits[Len(hits)].score})
                        = Cardinality({k \in 1 .. Len(hits) :
                                        hits[k].score > hits[Len(hits)].score})

\* The committed documents of the searched partition that carry the tag of
\* a scoped query that compiles and match its node.
ScopedMatch ==
    LET c == CompiledAll
        docs == Docs(icall.p)
    IN {i \in 1 .. Len(docs) :
            \E j \in 1 .. Len(icall.queries) :
                /\ IsOk(c[j])
                /\ DocHas(docs[i], SHEET_KEY, <<"U64", icall.queries[j][1]>>)
                /\ Matches(c[j].val[1], docs[i])}

\* C16: the hits of a search are documents that carry the tag of one of its
\* scoped queries and match the node paired with that tag, and an unlimited
\* search returns all of them; every committed document carries one tag,
\* that of the sheet it was ingested for.
C16_TagScoped ==
    /\ \A p \in SheetNames : \A v \in Versions :
        /\ Cardinality({i \in 1 .. Len(Docs(p)) :
                DocHas(Docs(p)[i], SHEET_KEY, <<"U64", SheetKey(v, p)>>)})
            = TagCount(index[p].log, SheetKey(v, p)) * Cardinality(SheetKeys(p))
        /\ \A i \in 1 .. Len(Docs(p)) : CountField(Docs(p)[i], SHEET_KEY) = 1
    /\ (icall.op = "search" /\ IsOk(icall.out)) =>
        LET hits == icall.out.val
            scoped == ScopedMatch
            found == {DocIds(Docs(icall.p)[i]) : i \in scoped}
            HitIds(k) == <<<<hits[k].sheet_key>>, <<hits[k].row_id>>, <<hits[k].subrow_id>>>>
        IN /\ \A k \in 1 .. Len(hits) : HitIds(k) \in found
           /\ icall.limit = <<>> =>
                /\ Len(hits) = Cardinality(scoped)
                /\ \A ids \in found : \E k \in 1 .. Len(hits) : HitIds(k) = ids

\* C16 witness: partition B holds both versions of its sheet; X = 6 under
\* one version's tag and match-all under the other's returns every row of
\* the second and only the rows with X = 6 of the first.
C16_Witness ==
    /\ icall.op = "search" /\ icall.p = "B" /\ icall.limit = <<>> /\ IsOk(icall.out)
    /\ icall.queries = <<<<SheetKey(1, "B"), Equal(FieldX, 6)>>,
                         <<SheetKey(2, "B"), MatchAllX>>>>
    /\ TagCount(index["B"].log, SheetKey(1, "B")) = 1
    /\ TagCount(index["B"].log, SheetKey(2, "B")) = 1
    /\ Len(icall.out.val) = 2 * Cardinality(SheetKeys("B")) - 1
    /\ \A k \in 1 .. Len(icall.out.val) :
        icall.out.val[k].row_id = 1 => icall.out.val[k].sheet_key = SheetKey(2, "B")

\* C4 witness: sheet A, whose rows differ between its two languages, was
\* ingested once and an unlimited match-all search returned its hits.
C4_Witness ==
    /\ icall.op = "search" /\ icall.p = "A" /\ IsOk(icall.out)
    /\ icall.limit = <<>> /\ icall.queries = <<<<SheetKey(1, "A"), MatchAllX>>>>
    /\ TagCount(index["A"].log, SheetKey(1, "A")) = 1
    /\ rows[<<"A", "ja">>] # {} /\ rows[<<"A", "ja">>] # rows[<<"A", "en">>]
    /\ ~(rows[<<"A", "ja">>] \subseteq rows[<<"A", "en">>])
    /\ Len(icall.out.val) = MaxRowId

----------------------------------------------------------------------------
(* SpecResolve: QueryResolver::resolve applied to nodes, on partitions     *)
(* that hold version 1 of their sheet or nothing.                          *)

InnerNodes == {Equal(FieldX, 6), Equal(FieldX, 5), Equal(FieldQ, 1)}

\* Groups of up to three clauses: children that resolve, fail non-fatally
\* (Q, S), panic (N) or need a search of partition B, and a nested group.
GroupAllOk ==
    Group(<< <<"must", Equal(FieldX, 1)>>, <<"should", Equal(FieldS, 0)>>,
             <<"must_not", Equal(FieldX, 2)>> >>)
GroupNodes ==
    { Group(<<>>),
      GroupAllOk,
      Group(<< <<"should", Equal(FieldX, 1)>>, <<"must", Equal(FieldQ, 1)>>,
               <<"must_not", Equal(FieldN, 1)>> >>),
      Group(<< <<"must", Equal(FieldN, 1)>>, <<"must", Equal(FieldQ, 1)>> >>),
      Group(<< <<"must_not", Equal(FieldS, U64Max)>>, <<"must", RelatedB>> >>),
      Group(<< <<"should", RelatedB>>, <<"must", Equal(FieldQ, 1)>> >>),
      Group(<< <<"must", GroupAllOk>>, <<"must_not", Equal(FieldX, 5)>> >>) }

ResolveNodes ==
    {Equal(f, v) : f \in {FieldX, FieldS, FieldN, FieldQ}, v \in U64}
    \cup GroupNodes
    \cup {Relation(f, s, q, c) :
            f \in {FieldX, FieldS, FieldN}, s \in {"B", UnknownSheet},
            q \in InnerNodes, c \in {<<>>, <<Equal(FieldX, 1)>>}}

\* The first ingest of a partition: version 1 of its sheet.
LoadSheet(p) ==
    /\ index[p].log = <<>>
    /\ rcall = NoResolve
    /\ scall = NoSearch
    /\ Ingest(p, <<<<SheetKey(1, p), p>>>>)

\* QueryResolver { version, schema of p, executor }.resolve(node).
ResolveCall(p, version, node) ==
    /\ icall.op = "none"
    /\ rcall = NoResolve
    /\ rcall' = [node |-> <<node>>, p |-> p, version |-> version,
                 inner |-> IF node.op = "relation"
                           THEN ExecutorSearch(version, node.sheet, node.query[1])
                           ELSE Res("none", <<>>),
                 out |-> resolve(node, index[p].schema, version)]
    /\ UNCHANGED <<patchVars, txVars, indexVars, scall, loopVars>>

ResolveReturn ==
    /\ rcall # NoResolve
    /\ rcall' = NoResolve
    /\ UNCHANGED <<patchVars, txVars, indexVars, scall, loopVars>>

InitResolve ==
    /\ rows \in RowChoices
    /\ index = EmptyIndex
    /\ meta = {}
    /\ ioFail \in {{}, {"B"}}
    /\ srcFail = {}
    /\ config = NoConfig
    /\ icall = NoCall
    /\ rcall = NoResolve
    /\ scall = NoSearch
    /\ TxIdle
    /\ PatchIdle
    /\ LoopIdle

NextResolve ==
    \/ \E p \in SheetNames : LoadSheet(p)
    \/ IndexReturn
    \/ \E p \in SheetNames, version \in Versions, node \in ResolveNodes :
            ResolveCall(p, version, node)
    \/ ResolveReturn

SpecResolve == InitResolve /\ [][NextResolve]_vars

----------------------------------------------------------------------------
(* Claims about QueryResolver.                                             *)

RNode == rcall.node[1]
RName == column_field_name(RNode.field.column, RNode.field.language)
RSchema == index[rcall.p].schema
IsRelationCall == rcall.node # <<>> /\ RNode.op = "relation"
IsEqualCall == rcall.node # <<>> /\ RNode.op = "equal"

\* The row ids of the rows of a sheet, as the data source holds them, that
\* an Equal leaf is true of, once the partition holds the version's sheet.
MatchingRows(sheet, version, q) ==
    IF sheet \notin SheetNames THEN {}
    ELSE IF TagCount(index[sheet].log, SheetKey(version, sheet)) = 0 THEN {}
    ELSE {key[1] : key \in {k \in SheetKeys(sheet) :
            \E c \in SeqToSet(Columns(sheet)) :
                /\ c = q.field.column
                /\ RowField(sheet, k, c, q.field.language)[2] = q.value.v}}

\* C5: a relation leaf without condition, on a numeric field, resolves to a
\* term set holding exactly the row ids of all target rows the inner query
\* matches, so a document matches iff its field holds one of them.
C5_RelationTermSet ==
    (IsRelationCall /\ RNode.condition = <<>>) =>
        LET ids == MatchingRows(RNode.sheet, rcall.version, RNode.query[1])
        IN /\ (/\ HasField(RSchema, RName)
               /\ FieldType(RSchema, RName) \in {"U64", "I64"}
               /\ RNode.sheet \in SheetNames \ ioFail) => IsOk(rcall.out)
           /\ IsOk(rcall.out) =>
                LET q == rcall.out.val[1]
                IN /\ q.t = "termset"
                   /\ {q.terms[i] : i \in 1 .. Len(q.terms)}
                        = {<<RName, <<FieldType(RSchema, RName), r>>>> : r \in ids}
                   /\ \A i \in 1 .. Len(Docs(rcall.p)) :
                        Matches(q, Docs(rcall.p)[i]) <=>
                            \E r \in ids : DocHas(Docs(rcall.p)[i], RName,
                                                  <<FieldType(RSchema, RName), r>>)

\* C5 witness: B holds rows 1, 2, 3 and X = 6 matches rows 2 and 3; the rows
\* of A reference 1, 2 and 4; only the document of the row referencing 2
\* matches the resolved relation.
C5_Witness ==
    /\ IsRelationCall /\ rcall.p = "A" /\ rcall.version = 1 /\ IsOk(rcall.out)
    /\ RNode = Relation(FieldX, "B", Equal(FieldX, 6), <<>>)
    /\ MatchingRows("B", 1, Equal(FieldX, 6)) = {2, 3}
    /\ {DocIds(Docs("A")[i])[2][1] : i \in 1 .. Len(Docs("A"))} = {1, 2, 3}
    /\ {DocIds(Docs("A")[i])[2][1] :
            i \in {j \in 1 .. Len(Docs("A")) : Matches(rcall.out.val[1], Docs("A")[j])}}
        = {2}

\* C9 (as claimed): resolve_relation on a relation whose target.condition is
\* present ends in a fatal failure whatever the inner search returned.
C9_ConditionIsFatal ==
    (IsRelationCall /\ RNode.condition # <<>> /\ HasField(RSchema, RName))
        => Fatal(rcall.out)

\* What resolving the i-th clause of the group of the last call gives.
Child(i) == resolve(RNode.clauses[i][2], index[rcall.p].schema, rcall.version)

\* C17: a group whose children all resolve gives a boolean query of as many
\* clauses in the same order, clause i with the occurrence of the group's
\* clause i (must -> Must, should -> Should, must_not -> MustNot) and the
\* resolution of its node; otherwise the group fails with the error of the
\* first child that fails.
C17_GroupClauses ==
    (rcall # NoResolve /\ RNode.t = "group") =>
        LET k == Len(RNode.clauses)
            Occ(o) == IF o = "must" THEN "Must"
                      ELSE IF o = "should" THEN "Should" ELSE "MustNot"
        IN /\ (\A i \in 1 .. k : IsOk(Child(i))) =>
                /\ IsOk(rcall.out)
                /\ rcall.out.val[1].t = "bool"
                /\ rcall.out.val[1].clauses
                    = [i \in 1 .. k |-> <<Occ(RNode.clauses[i][1]), Child(i).val[1]>>]
           /\ \A i \in 1 .. k :
                (~IsOk(Child(i)) /\ \A j \in 1 .. i - 1 : IsOk(Child(j)))
                    => rcall.out = Child(i)

\* C17 witness: a group of a must, a should and a must_not clause resolved
\* on partition A.
C17_Witness ==
    /\ rcall # NoResolve /\ rcall.p = "A" /\ RNode = GroupAllOk
    /\ IsOk(rcall.out) /\ Len(rcall.out.val[1].clauses) = 3
    /\ rcall.out.val[1].clauses[3][1] = "MustNot"

\* C10: Equal(U64(v)) on a field of the schema is the exact term v on a U64
\* field, the exact term v or (above i64::MAX) a field-type error on an I64
\* field, and a fatal failure on any other; the term matches exactly the
\* documents of the rows that hold v in the column.
C10_EqualTerm ==
    (IsEqualCall /\ HasField(RSchema, RName)) =>
        LET v == RNode.value.v
            type == FieldType(RSchema, RName)
            exact == /\ IsOk(rcall.out)
                     /\ rcall.out.val[1] = TermQuery(RName, <<type, v>>)
                     /\ \A i \in 1 .. Len(Docs(rcall.p)) :
                            LET d == Docs(rcall.p)[i]
                                key == <<DocIds(d)[2][1], DocIds(d)[3][1]>>
                            IN Matches(rcall.out.val[1], d) <=>
                                RowField(rcall.p, key, RNode.field.column,
                                         RNode.field.language)[2] = v
        IN CASE type = "U64" -> exact
             [] type = "I64" -> IF v <= I64Max THEN exact
                                ELSE rcall.out.kind = "FieldType"
             [] OTHER -> Fatal(rcall.out)

\* C10 witness: a value above i64::MAX asked of the signed column S of a
\* partition that holds documents.
C10_Witness ==
    /\ IsEqualCall /\ rcall.p = "A" /\ RNode = Equal(FieldS, I64Max + 1)
    /\ rcall.out.kind = "FieldType"
    /\ Docs("A") # <<>>

----------------------------------------------------------------------------
(* Search::search.                                                         *)

\* limit.unwrap_or(limit_default) without the .min(limit_max).
result_limit_unclamped(limit, cfg) ==
    IF limit = <<>> THEN cfg.limit_default ELSE limit[1]

\* limit.unwrap_or(limit_default).min(limit_max)
result_limit(limit, cfg) ==
    Min(IF limit = <<>> THEN cfg.limit_default ELSE limit[1], cfg.limit_max)

\* excel.list(): the sheets of a version, in the list's order.
SheetList(version) == <<"A", "B">>

\* The full list whatever the filter.
sheet_names_unfiltered(filter, list) == list

\* The sheet filter (a sequence of at most one sequence of names, in the
\* set's iteration order), falling back to the full list.
sheet_names(filter, list) == IF filter = <<>> THEN list ELSE filter[1]

\* A pre-normalisation query: a column name and the value it must equal.
PreEqual(name, v) == [field |-> name, value |-> v]

\* Normalizer::normalize: the query bound to the sheet's column of that
\* name; a schema mismatch when the sheet has none, a failure when the
\* sheet cannot be read.
normalize(query, name, language) ==
    IF name \notin SheetNames THEN Res("SchemaMismatch", <<>>)
    ELSE IF name \in srcFail THEN Res("Failure", <<>>)
    ELSE LET cols == {c \in SeqToSet(Columns(name)) : c.name = query.field}
         IN IF cols = {} THEN Res("SchemaMismatch", <<>>)
            ELSE LET c == CHOOSE c \in cols : TRUE
                 IN Res("ok", <<Equal(FieldRef(c.name, c.kind, language), query.value)>>)

\* One step of the filter/collect with no filter: any error ends it.
NormStepStrict(name, normalized_query, rest) ==
    IF ~IsOk(normalized_query) THEN Res(normalized_query.kind, <<>>)
    ELSE IF ~IsOk(rest) THEN rest
    ELSE Res("ok", <<<<name, normalized_query.val[1]>>>> \o rest.val)

\* One step of the filter/collect dropping every error, Failure too.
NormStepLenient(name, normalized_query, rest) ==
    IF ~IsOk(rest) THEN rest
    ELSE IF ~IsOk(normalized_query) THEN rest
    ELSE Res("ok", <<<<name, normalized_query.val[1]>>>> \o rest.val)

\* One step of the filter/collect of Search::search: a Failure ends it, any
\* other error drops the sheet.
NormStep(name, normalized_query, rest) ==
    IF normalized_query.kind = "Failure" THEN Res("Failure", <<>>)
    ELSE IF ~IsOk(rest) THEN rest
    ELSE IF ~IsOk(normalized_query) THEN rest
    ELSE Res("ok", <<<<name, normalized_query.val[1]>>>> \o rest.val)

RECURSIVE normalized_queries(_, _, _)
normalized_queries(names, query, language) ==
    IF names = <<>> THEN Res("ok", <<>>)
    ELSE NormStep(Head(names), normalize(query, Head(names), language),
                  normalized_queries(Tail(names), query, language))

\* The end of Search::search: the executor is given the queries and
\* Some(result_limit), unless the normalisation failed.
SearchExecute(version, queries, limit) ==
    IF ~IsOk(queries)
    THEN [handed |-> <<>>, sent |-> <<>>, out |-> Res(queries.kind, <<>>)]
    ELSE [handed |-> <<<<limit>>>>, sent |-> <<queries.val>>,
          out |-> Executor_search(version, queries.val, <<limit>>)]

\* Search::search: what the executor was handed and what the call returned.
Search_search(version, query, language, sheet_filter, limit) ==
    IF version \notin avail
    THEN [handed |-> <<>>, sent |-> <<>>, out |-> Res("Failure", <<>>)]
    ELSE SearchExecute(version,
                       normalized_queries(
                            sheet_names(sheet_filter, SheetList(version)),
                            query, language),
                       result_limit(limit, config))

----------------------------------------------------------------------------
(* SpecSearch: Search::search called on a service whose partitions hold    *)
(* version 1 of their sheet or nothing.                                    *)

\* The largest limit a configuration or a caller names, but for one more.
MaxLimit == 2

PreQueries == {PreEqual("X", 6), PreEqual("S", 0), PreEqual("Q", 1)}
Filters ==
    {<<>>, <<<<>>>>, <<<<"A">>>>, <<<<"B">>>>, <<<<"A", "B">>>>, <<<<"B", "A">>>>,
     <<<<UnknownSheet, "A">>>>}
Limits == {<<>>} \cup {<<n>> : n \in 0 .. MaxLimit + 1}

SearchCall(version, query, language, sheet_filter, limit) ==
    /\ icall.op = "none"
    /\ scall = NoSearch
    /\ LET r == Search_search(version, query, language, sheet_filter, limit)
       IN scall' = [version |-> version, query |-> <<query>>, filter |-> sheet_filter,
                    limit |-> limit, handed |-> r.handed, sent |-> r.sent,
                    out |-> r.out]
    /\ UNCHANGED <<patchVars, txVars, indexVars, rcall, loopVars>>

SearchReturn ==
    /\ scall # NoSearch
    /\ scall' = NoSearch
    /\ UNCHANGED <<patchVars, txVars, indexVars, rcall, loopVars>>

InitSearch ==
    /\ rows \in {f \in RowChoices : f[<<"A", "ja">>] = {<<1, 0>>, <<2, 0>>}}
    /\ index = EmptyIndex
    /\ meta = {}
    /\ ioFail = {}
    /\ srcFail \in {{}, {"B"}}
    /\ config \in [limit_default : 0 .. MaxLimit, limit_max : 0 .. MaxLimit]
    /\ icall = NoCall
    /\ rcall = NoResolve
    /\ scall = NoSearch
    /\ TxIdle
    /\ PatchIdle
    /\ pc = "idle" /\ cancelled = FALSE /\ published = <<>> /\ changed = FALSE
    /\ avail \in {{1}, Versions} /\ ingestArg = <<>> /\ ingests = 0
    /\ waits = 0 /\ failed = FALSE /\ result = "none"

NextSearch ==
    \/ \E p \in SheetNames : LoadSheet(p)
    \/ IndexReturn
    \/ \E version \in Versions, query \in PreQueries, sheet_filter \in Filters,
          limit \in Limits :
            SearchCall(version, query, "en", sheet_filter, limit)
    \/ SearchReturn

SpecSearch == InitSearch /\ [][NextSearch]_vars

----------------------------------------------------------------------------
(* Claims about Search::search.                                            *)

SQuery == scall.query[1]
\* The candidate sheets of the call and what normalising the query gives.
SCandidates == sheet_names(scall.filter, SheetList(scall.version))
SOutcome(s) == normalize(SQuery, s, "en")

\* C1: the executor is handed Some(min(limit or limit_default, limit_max)),
\* never None, and a call that succeeds returns at most that many results.
C1_ResultLimit ==
    scall # NoSearch =>
        LET wanted == IF scall.limit = <<>> THEN config.limit_default
                      ELSE scall.limit[1]
            bound == IF wanted <= config.limit_max THEN wanted ELSE config.limit_max
        IN /\ scall.handed \in {<<>>, <<<<bound>>>>}
           /\ IsOk(scall.out) =>
                /\ scall.handed = <<<<bound>>>>
                /\ Len(scall.out.val) <= bound

\* C1 witness: a limit above limit_max, more matching rows than limit_max,
\* and limit_max results returned.
C1_Witness ==
    /\ scall # NoSearch /\ IsOk(scall.out)
    /\ scall.limit = <<MaxLimit + 1>> /\ config.limit_max = MaxLimit
    /\ SQuery = PreEqual("X", 6) /\ scall.filter = <<>>
    /\ Cardinality(MatchingRows("B", scall.version, Equal(FieldX, 6))) >= MaxLimit
    /\ Len(scall.out.val) = MaxLimit

\* C2: when no candidate sheet fails fatally, the sheets whose normalisation
\* fails are dropped, the queries of all others reach the executor in
\* order, the call returns what the executor returns and no non-fatal
\* error; with every sheet dropped it returns no results.
C2_NonFatalDropped ==
    (/\ scall # NoSearch /\ scall.version \in avail
     /\ \A i \in 1 .. Len(SCandidates) : SOutcome(SCandidates[i]).kind # "Failure")
    => LET kept == SelectSeq(SCandidates, LAMBDA s : IsOk(SOutcome(s)))
       IN /\ scall.sent = <<[i \in 1 .. Len(kept) |->
                                <<kept[i], SOutcome(kept[i]).val[1]>>]>>
          /\ ~NonFatal(scall.out)
          /\ kept = <<>> => scall.out = Res("ok", <<>>)
          /\ (ioFail = {} /\ (kept = <<>> \/ scall.handed[1][1] > 0))
                => IsOk(scall.out)

\* C2 witness: S = 0 asked of both sheets; B has no column S and is dropped,
\* A is searched and its row is returned.
C2_Witness ==
    /\ scall # NoSearch /\ scall.filter = <<>> /\ SQuery = PreEqual("S", 0)
    /\ SOutcome("B").kind = "SchemaMismatch"
    /\ scall.sent = <<<<<<"A", Equal(FieldS, 0)>>>>>>
    /\ IsOk(scall.out) /\ Len(scall.out.val) = 1
    /\ scall.out.val[1].sheet = "A"

\* C18: when the version's data is not available, or normalising the query
\* for some candidate sheet fails fatally, the call returns a Failure with
\* no results and the executor is not invoked.
C18_FatalAborts ==
    (/\ scall # NoSearch
     /\ \/ scall.version \notin avail
        \/ \E i \in 1 .. Len(SCandidates) : SOutcome(SCandidates[i]).kind = "Failure")
    => /\ scall.out = Res("Failure", <<>>)
       /\ scall.handed = <<>>
       /\ scall.sent = <<>>

\* C18 witness: sheet A normalises and holds rows, sheet B cannot be read;
\* the call over both fails.
C18_Witness ==
    /\ scall # NoSearch /\ scall.version \in avail /\ scall.filter = <<>>
    /\ SQuery = PreEqual("X", 6)
    /\ IsOk(SOutcome("A")) /\ SOutcome("B").kind = "Failure"
    /\ Len(index["A"].docs) > 0
    /\ scall.out.kind = "Failure" /\ scall.handed = <<>>

\* The names of the sheets whose query the executor was sent.
SentNames == IF scall.sent = <<>> THEN <<>>
             ELSE [i \in 1 .. Len(scall.sent[1]) |-> scall.sent[1][i][1]]

\* C19: the sheets whose query is sent to the executor are candidates, each
\* sent once and in candidate order: entries of the filter when there is
\* one, sheets of the version's list otherwise.
C19_CandidatesOnly ==
    scall # NoSearch =>
        /\ SentNames = SelectSeq(SCandidates, LAMBDA s : s \in SeqToSet(SentNames))
        /\ scall.filter # <<>> => SeqToSet(SentNames) \subseteq SeqToSet(scall.filter[1])
        /\ scall.filter = <<>> =>
                SeqToSet(SentNames) \subseteq SeqToSet(SheetList(scall.version))

\* C19 witness: the filter names B alone; A would normalise as well and is
\* not queried.
C19_Witness ==
    /\ scall # NoSearch /\ scall.filter = <<<<"B">>>> /\ SQuery = PreEqual("X", 6)
    /\ IsOk(SOutcome("A")) /\ IsOk(scall.out)
    /\ SentNames = <<"B">> /\ Len(index["A"].docs) > 0

----------------------------------------------------------------------------
(* Search::start, Search::ingest and the provider's ingest.                *)

\* The counters of the loop saturate at LoopCap.
LoopCap == 2
Inc(n) == IF n < LoopCap THEN n + 1 ELSE n

\* The version sets the data source publishes on its watch channel.
VersionSets == {<<1>>, <<2>>, <<1, 2>>}

\* A resolution that keeps the sheets of the versions before the first one
\* that cannot be resolved, and hands those on.
RECURSIVE IngestSheetsPartial(_)
IngestSheetsPartial(versions) ==
    IF versions = <<>> THEN Res("ok", <<>>)
    ELSE IF Head(versions) \notin avail THEN Res("ok", <<>>)
    ELSE IF \E i \in 1 .. Len(SheetList(Head(versions))) :
                SheetList(Head(versions))[i] \in srcFail
         THEN Res("ok", <<>>)
    ELSE LET list == SheetList(Head(versions))
         IN Res("ok", [i \in 1 .. Len(list) |-> <<Head(versions), list[i]>>]
                       \o IngestSheetsPartial(Tail(versions)).val)

\* The first half of Search::ingest: every (version, sheet) of the given
\* versions, or the error of a version that is announced but not provided
\* or of a sheet that cannot be read.
RECURSIVE IngestSheets(_)
IngestSheets(versions) ==
    IF versions = <<>> THEN Res("ok", <<>>)
    ELSE IF Head(versions) \notin avail THEN Res("Failure", <<>>)
    ELSE IF \E i \in 1 .. Len(SheetList(Head(versions))) :
                SheetList(Head(versions))[i] \in srcFail
         THEN Res("Failure", <<>>)
    ELSE LET list == SheetList(Head(versions))
             rest == IngestSheets(Tail(versions))
         IN IF IsOk(rest)
            THEN Res("ok", [i \in 1 .. Len(list) |-> <<Head(versions), list[i]>>]
                            \o rest.val)
            ELSE rest

\* The provider's ingest: the sheets whose key is not yet in the metadata
\* store, grouped by partition; each partition ingests its batch in one
\* Index::ingest, and the keys are then recorded as ingested.
PartitionBatch(p, sheets) ==
    LET mine == SelectSeq(sheets, LAMBDA vs :
                    vs[2] = p /\ SheetKey(vs[1], vs[2]) \notin meta)
    IN [i \in 1 .. Len(mine) |-> <<SheetKey(mine[i][1], p), p>>]

ProviderIngest(sheets) ==
    LET after == [p \in SheetNames |->
                    IF PartitionBatch(p, sheets) = <<>> THEN Res("ok", index[p].docs)
                    ELSE IndexIngest(p, PartitionBatch(p, sheets), FALSE)]
        done == {p \in SheetNames : IsOk(after[p])}
    IN [index |-> [p \in SheetNames |->
                    IF p \in done /\ PartitionBatch(p, sheets) # <<>>
                    THEN [index[p] EXCEPT !.docs = after[p].val,
                                          !.log = Append(@, PartitionBatch(p, sheets))]
                    ELSE index[p]],
        meta |-> meta \cup {b[1] : b \in UNION {SeqToSet(PartitionBatch(p, sheets)) :
                                                  p \in done}},
        out |-> IF done = SheetNames THEN Res("ok", <<>>) ELSE Res("Failure", <<>>)]

\* The version set cloned once, before the loop.
BorrowVersionsOnce == IF pc = "start" THEN published ELSE ingestArg
\* `receiver.borrow().clone()`: the value the watch channel holds now.
BorrowVersions == published

\* The `?` after `self.ingest(..).await`: where start goes when the call
\* returned.
AfterIngestRetry(out) == "wait"
AfterIngest(out) == IF IsOk(out) THEN "wait" ELSE "done"

\* start has the result of an ingest call.
IngestReturned(out) ==
    /\ pc' = AfterIngest(out)
    /\ failed' = (failed \/ ~IsOk(out))
    /\ waits' = IF AfterIngest(out) = "wait" THEN Inc(waits) ELSE waits
    /\ result' = IF AfterIngest(out) = "done" THEN "err" ELSE result

\* start calls self.ingest with the borrowed version set, first on launch
\* and then in the `changed` branch of the select; the call resolves the
\* sheets and, unless that fails, hands them to the provider.
BeginIngest ==
    /\ pc \in {"start", "notified"}
    /\ ingestArg' = BorrowVersions
    /\ ingests' = Inc(ingests)
    /\ IF IsOk(IngestSheets(BorrowVersions))
       THEN /\ pc' = "ingesting"
            /\ UNCHANGED <<waits, failed, result>>
       ELSE IngestReturned(IngestSheets(BorrowVersions))
    /\ UNCHANGED <<patchVars, txVars, indexVars, rcall, scall, cancelled, published, changed, avail>>

\* The provider's ingest finishes: what it committed is in the partitions.
IngestReturn ==
    /\ pc = "ingesting"
    /\ LET r == ProviderIngest(IngestSheets(ingestArg).val)
       IN /\ index' = r.index
          /\ meta' = r.meta
          /\ IngestReturned(r.out)
    /\ UNCHANGED <<patchVars, txVars, envVars, icall, rcall, scall, cancelled, published, changed,
                   avail, ingestArg, ingests>>

\* The provider's ingest sees its child token cancelled and returns
\* having committed nothing.
IngestCancelled ==
    /\ pc = "ingesting"
    /\ cancelled
    /\ IngestReturned(Res("ok", <<>>))
    /\ UNCHANGED <<patchVars, txVars, indexVars, rcall, scall, cancelled, published, changed, avail,
                   ingestArg, ingests>>

\* select! whose `changed` branch has an empty body: the notification is
\* marked as seen and start waits again.
SelectChangedDropped ==
    /\ pc = "wait"
    /\ changed
    /\ changed' = FALSE
    /\ waits' = Inc(waits)
    /\ UNCHANGED <<patchVars, txVars, indexVars, rcall, scall, pc, cancelled, published, avail,
                   ingestArg, ingests, failed, result>>

\* select!: `receiver.changed()` completes and marks the value as seen.
SelectChanged ==
    /\ pc = "wait"
    /\ changed
    /\ changed' = FALSE
    /\ pc' = "notified"
    /\ UNCHANGED <<patchVars, txVars, indexVars, rcall, scall, cancelled, published, avail, ingestArg,
                   ingests, waits, failed, result>>

\* select! with `biased;`: the cancel branch only when no change is pending.
SelectCancelBiased ==
    /\ pc = "wait"
    /\ cancelled
    /\ ~changed
    /\ pc' = "done"
    /\ result' = "ok"
    /\ UNCHANGED <<patchVars, txVars, indexVars, rcall, scall, cancelled, published, changed, avail,
                   ingestArg, ingests, waits, failed>>

\* select!: `cancel.cancelled()` completes; break, and start returns Ok(()).
SelectCancel ==
    /\ pc = "wait"
    /\ cancelled
    /\ pc' = "done"
    /\ result' = "ok"
    /\ UNCHANGED <<patchVars, txVars, indexVars, rcall, scall, cancelled, published, changed, avail,
                   ingestArg, ingests, waits, failed>>

\* The data source publishes another version set on the watch channel.
Publish(versions) ==
    /\ versions # published
    /\ published' = versions
    /\ changed' = TRUE
    /\ UNCHANGED <<patchVars, txVars, indexVars, rcall, scall, pc, cancelled, avail, ingestArg,
                   ingests, waits, failed, result>>

\* The owner of the token cancels it while start runs.
Cancel ==
    /\ pc # "done"
    /\ ~cancelled
    /\ cancelled' = TRUE
    /\ UNCHANGED <<patchVars, txVars, indexVars, rcall, scall, pc, published, changed, avail,
                   ingestArg, ingests, waits, failed, result>>

InitLoop ==
    /\ rows \in {f \in RowChoices : /\ f[<<"A", "en">>] = RowKeys("A")
                                    /\ f[<<"A", "ja">>] = {<<1, 0>>, <<2, 0>>}}
    /\ index = EmptyIndex
    /\ meta = {}
    /\ ioFail = {}
    /\ srcFail \in {{}, {"B"}}
    /\ config = NoConfig
    /\ icall = NoCall
    /\ rcall = NoResolve
    /\ scall = NoSearch
    /\ TxIdle
    /\ PatchIdle
    /\ pc = "start" /\ cancelled = FALSE /\ published \in VersionSets
    /\ changed = FALSE /\ avail \in {{1}, Versions} /\ ingestArg = <<>>
    /\ ingests = 0 /\ waits = 0 /\ failed = FALSE /\ result = "none"

NextLoop ==
    \/ BeginIngest
    \/ IngestReturn
    \/ IngestCancelled
    \/ SelectChanged
    \/ SelectCancel
    \/ \E versions \in VersionSets : Publish(versions)
    \/ Cancel

\* The runtime polls start whenever it can make a step; select! picks at
\* random among its ready branches, so a branch that is ready again and
\* again is taken; a running ingest returns once its token is cancelled.
SpecLoop ==
    /\ InitLoop /\ [][NextLoop]_vars
    /\ WF_vars(BeginIngest) /\ WF_vars(IngestCancelled)
    /\ WF_vars(SelectChanged) /\ SF_vars(SelectCancel)

----------------------------------------------------------------------------
(* Claims about Search::start.                                             *)

\* C6 as stated: once the token is cancelled while start runs, start
\* returns, and what it returns is Ok(()).
C6_CancelReturnsOk == (cancelled /\ pc = "done") => result = "ok"

\* C6 amended: once the token is cancelled, start eventually returns; it
\* returns Ok(()) unless an ingest call returned an error, and then it
\* returns that error.
C6_CancelTerminates ==
    /\ cancelled ~> (pc = "done")
    /\ [](pc = "done" => result = IF failed THEN "err" ELSE "ok")

\* C6 witness: start returned Ok(()) after a cancellation that came while
\* a notification was pending.
C6_Witness ==
    cancelled /\ pc = "done" /\ result = "ok" /\ changed /\ ingests = 2

\* C20 (as claimed): once the token is cancelled, start at its wait point
\* does not take the notification branch, and begins no ingest for a
\* notification.
C20_NoIngestAfterCancel ==
    [][cancelled => /\ ~(pc = "wait" /\ pc' = "notified")
                    /\ ~(pc = "notified" /\ pc' # "notified")]_vars

\* C21: a version set published while an ingest is in flight is not lost.
\* Whenever the channel holds a version set other than the one last handed
\* to ingest, a notification is pending or being handled; a notification
\* pending when start waits leads, unless the token is cancelled, to an
\* ingest begun with the version set the channel then holds; and when
\* publishing stops at a version set while start is neither cancelled nor
\* failed and its ingests return, the last ingest is of that version set.
C21_ChangeNotLost ==
    /\ []((pc \in {"wait", "ingesting"} /\ published # ingestArg) => changed)
    /\ (pc = "wait" /\ changed)
            ~> (cancelled \/ (ingestArg = published /\ pc \in {"ingesting", "done"}))
    /\ \A versions \in VersionSets :
            (/\ <>[](published = versions)
             /\ [](~cancelled /\ ~failed)
             /\ []<>(pc # "ingesting"))
            => <>[](ingestArg = versions)

\* C21 witness: the ingest begun for a notification, of the version set
\* published last while the first ingest was in flight and the channel held
\* another version set before it.
C21_Witness ==
    /\ pc = "ingesting" /\ ingests = 2 /\ waits = 1 /\ ~cancelled /\ ~failed /\ ~changed
    /\ ingestArg = <<2>> /\ published = <<2>>
    /\ SheetKey(1, "A") \in meta /\ SheetKey(2, "A") \notin meta

\* A version set with a version the data source does not provide, or with
\* a sheet that cannot be listed or opened.
Unresolvable(versions) ==
    \E i \in 1 .. Len(versions) :
        \/ versions[i] \notin avail
        \/ \E j \in 1 .. Len(SheetList(versions[i])) :
                SheetList(versions[i])[j] \in srcFail

\* C22: Search::ingest hands sheets to the provider only when every
\* version of the batch resolved. An ingest of a version set with an
\* unavailable version or an unreadable sheet returns an error with no
\* partition and no metadata written, and start returns that error.
C22_ResolveBeforeIngest ==
    /\ [](pc = "ingesting" => ~Unresolvable(ingestArg))
    /\ [][(pc \in {"start", "notified"} /\ pc' # pc /\ Unresolvable(published)) =>
            /\ ingestArg' = published
            /\ index' = index /\ meta' = meta
            /\ pc' = "done" /\ failed' /\ result' = "err"]_vars
    /\ [](Unresolvable(ingestArg) => (pc = "done" /\ result = "err"))

\* C22 witness: after version 1 was ingested, the version set <<1, 2>> is
\* announced while version 2 is not provided; the ingest fails and the
\* partitions hold the sheets of the first ingest only.
C22_Witness ==
    /\ pc = "done" /\ failed /\ ingests = 2 /\ ingestArg = <<1, 2>> /\ avail = {1}
    /\ meta = {SheetKey(1, p) : p \in SheetNames}
    /\ \A p \in SheetNames : Len(index[p].log) = 1

\* C7: start begins exactly one ingest, of the version set the channel
\* holds, before it first waits; then every notification it receives is
\* followed by one ingest of the version set the channel holds when that
\* ingest starts, and no ingest starts otherwise.
C7_IngestPerNotification ==
    /\ [](waits = 0 => ingests <= 1)
    /\ [](pc = "wait" => waits >= 1 /\ ingests >= 1)
    /\ [][pc = "start" =>
            \/ pc' = "start" /\ ingests' = 0
            \/ ingests' = 1 /\ ingestArg' = published]_vars
    /\ [][pc = "notified" =>
            \/ pc' = "notified" /\ ingests' = ingests /\ ingestArg' = ingestArg
            \/ ingests' = Inc(ingests) /\ ingestArg' = published]_vars
    /\ [][pc \notin {"start", "notified"} =>
            ingests' = ingests /\ ingestArg' = ingestArg]_vars
    /\ (pc = "notified") ~> (ingestArg = published /\ pc \in {"ingesting", "done"})

\* C7 witness: the second ingest, started by a notification, of a version
\* set other than the one first ingested.
C7_Witness ==
    /\ pc = "ingesting" /\ ingests = 2 /\ waits = 1 /\ ~cancelled /\ ~failed
    /\ ingestArg = <<1, 2>> /\ published = <<1, 2>>
    /\ SheetKey(2, "A") \notin meta /\ SheetKey(1, "A") \in meta

\* C8: when an ingest call returns an error, start has returned that
\* error; once start has returned, no ingest starts and nothing of its
\* state changes, whatever is published later.
C8_ErrorStops ==
    /\ [](failed => pc = "done" /\ result = "err")
    /\ [][pc = "done" =>
            /\ pc' = "done" /\ result' = result
            /\ ingests' = ingests /\ ingestArg' = ingestArg
            /\ index' = index /\ meta' = meta]_vars

\* C8 witness: the ingest started by a notification failed, start returned
\* the error, and a later notification is pending.
C8_Witness ==
    /\ failed /\ pc = "done" /\ result = "err" /\ ingests = 2 /\ changed
    /\ published # ingestArg

----------------------------------------------------------------------------
(* SpecWriter: Index::ingest step by step, calls overlapping each other    *)
(* and a search. The index writer is tantivy's: one per index directory    *)
(* (a second `index.writer` fails while the first is alive), documents     *)
(* added to it are published by `commit` as a whole and dropped with the   *)
(* writer otherwise; the reader reloads after a commit (OnCommit) and a    *)
(* searcher keeps the documents the reader had loaded when it was taken.   *)

\* The calls that hold a writer and have not committed yet.
Writing == {i \in TxIds : tx[i].pc = "writing"}

\* The call returns, its writer (if it has one) is dropped.
TxReturns(i, out) ==
    /\ tx' = [tx EXCEPT ![i] = [NoTx EXCEPT !.pc = "returned", !.p = tx[i].p,
                                            !.out = out]]
    /\ lock' = [p \in SheetNames |-> IF lock[p] = i THEN 0 ELSE lock[p]]

\* index.writer(..) with no regard for a writer that is alive.
TxBeginUnlocked(i, p, batch) ==
    /\ tx[i].pc = "idle"
    /\ Ingested + Cardinality(Writing) < MaxIngests
    /\ tx' = [tx EXCEPT ![i] = [NoTx EXCEPT !.pc = "writing", !.p = p,
                                            !.batch = batch, !.todo = batch]]
    /\ lock' = [lock EXCEPT ![p] = i]
    /\ UNCHANGED <<patchVars, indexVars, rcall, scall, loopVars, reader, view>>

\* `self.index.writer(writer_memory)?`: the call takes the writer of the
\* partition, or returns the error of a writer that is already taken.
TxBegin(i, p, batch) ==
    /\ tx[i].pc = "idle"
    /\ Ingested + Cardinality(Writing) < MaxIngests
    /\ IF lock[p] = 0
       THEN /\ tx' = [tx EXCEPT ![i] = [NoTx EXCEPT !.pc = "writing", !.p = p,
                                                   !.batch = batch, !.todo = batch]]
            /\ lock' = [lock EXCEPT ![p] = i]
       ELSE /\ tx' = [tx EXCEPT ![i] = [NoTx EXCEPT !.pc = "returned", !.p = p,
                                                   !.out = "Failure"]]
            /\ lock' = lock
    /\ UNCHANGED <<patchVars, indexVars, rcall, scall, loopVars, reader, view>>

\* One pass of the sheet loop, the documents published as they are written.
TxWriteThrough(i) ==
    /\ tx[i].pc = "writing"
    /\ tx[i].todo # <<>>
    /\ LET documents == sheet_documents(Head(tx[i].todo)[1], Head(tx[i].todo)[2],
                                        index[tx[i].p].schema)
       IN /\ tx' = [tx EXCEPT ![i].todo = Tail(@)]
          /\ index' = IF IsOk(documents)
                      THEN [index EXCEPT ![tx[i].p].docs =
                                @ \o IntoValues(documents.val, FALSE)]
                      ELSE index
    /\ UNCHANGED <<patchVars, envVars, meta, icall, rcall, scall, loopVars, lock, reader, view>>

\* One pass of the sheet loop: the documents of the next sheet go to the
\* writer; a sheet whose documents cannot be built is skipped; a panic
\* unwinds the call.
TxWrite(i) ==
    /\ tx[i].pc = "writing"
    /\ tx[i].todo # <<>>
    /\ LET documents == sheet_documents(Head(tx[i].todo)[1], Head(tx[i].todo)[2],
                                        index[tx[i].p].schema)
       IN IF documents.kind = "panic"
          THEN TxReturns(i, "panic")
          ELSE /\ tx' = [tx EXCEPT ![i].todo = Tail(@),
                                   ![i].pending =
                                        IF IsOk(documents)
                                        THEN @ \o IntoValues(documents.val, FALSE)
                                        ELSE @]
               /\ lock' = lock
    /\ UNCHANGED <<patchVars, indexVars, rcall, scall, loopVars, reader, view>>

\* `writer.run(..)?` or `writer.commit()?` fails: the call returns the error
\* before anything is committed.
TxFail(i) ==
    /\ tx[i].pc = "writing"
    /\ TxReturns(i, "Failure")
    /\ UNCHANGED <<patchVars, indexVars, rcall, scall, loopVars, reader, view>>

\* `writer.commit()?` after the last sheet: everything written is published.
TxCommit(i) ==
    /\ tx[i].pc = "writing"
    /\ tx[i].todo = <<>>
    /\ index' = [index EXCEPT ![tx[i].p].docs = @ \o tx[i].pending,
                              ![tx[i].p].log = Append(@, tx[i].batch)]
    /\ tx' = [tx EXCEPT ![i].pc = "committed", ![i].pending = <<>>]
    /\ UNCHANGED <<patchVars, envVars, meta, icall, rcall, scall, loopVars, lock, reader, view>>

\* `writer.wait_merging_threads()?; Ok(())`.
TxFinish(i) ==
    /\ tx[i].pc = "committed"
    /\ TxReturns(i, "ok")
    /\ UNCHANGED <<patchVars, indexVars, rcall, scall, loopVars, reader, view>>

\* The caller has the result; it may call again.
TxDone(i) ==
    /\ tx[i].pc = "returned"
    /\ tx' = [tx EXCEPT ![i] = NoTx]
    /\ UNCHANGED <<patchVars, indexVars, rcall, scall, loopVars, lock, reader, view>>

\* The reader of a partition loads the last commit.
Reload(p) ==
    /\ reader[p] # index[p].docs
    /\ reader' = [reader EXCEPT ![p] = index[p].docs]
    /\ UNCHANGED <<patchVars, indexVars, rcall, scall, loopVars, tx, lock, view>>

\* `self.reader.searcher()` at the start of Index::search.
Acquire(p) ==
    /\ view = <<>>
    /\ view' = <<[p |-> p, docs |-> reader[p]]>>
    /\ UNCHANGED <<patchVars, indexVars, rcall, scall, loopVars, tx, lock, reader>>

\* The search is over and its searcher dropped.
Release ==
    /\ view # <<>>
    /\ view' = <<>>
    /\ UNCHANGED <<patchVars, indexVars, rcall, scall, loopVars, tx, lock, reader>>

InitWriter ==
    /\ rows \in {f \in RowChoices : /\ f[<<"A", "en">>] = RowKeys("A")
                                    /\ f[<<"A", "ja">>] = {<<1, 0>>, <<2, 0>>}}
    /\ index = EmptyIndex
    /\ meta = {}
    /\ ioFail = {}
    /\ srcFail = {}
    /\ config = NoConfig
    /\ icall = NoCall
    /\ rcall = NoResolve
    /\ scall = NoSearch
    /\ TxIdle
    /\ PatchIdle
    /\ LoopIdle

NextWriter ==
    \/ \E i \in TxIds, p \in SheetNames : \E batch \in Batches(p) :
            TxBegin(i, p, batch)
    \/ \E i \in TxIds : TxWrite(i)
    \/ \E i \in TxIds : TxFail(i)
    \/ \E i \in TxIds : TxCommit(i)
    \/ \E i \in TxIds : TxFinish(i)
    \/ \E i \in TxIds : TxDone(i)
    \/ \E p \in SheetNames : Reload(p)
    \/ \E p \in SheetNames : Acquire(p)
    \/ Release

SpecWriter == InitWriter /\ [][NextWriter]_vars

----------------------------------------------------------------------------
(* Claims about overlapping Index::ingest and Index::search.               *)

\* The documents of whole batches, one after the other.
RECURSIVE BatchesDocs(_, _)
BatchesDocs(p, batches) ==
    IF batches = <<>> THEN <<>>
    ELSE IngestRun(<<>>, Head(batches), index[p].schema, FALSE).val
         \o BatchesDocs(p, Tail(batches))

\* What partition p held after each of its commits (and before the first).
CommitStates(p) ==
    {BatchesDocs(p, SubSeq(index[p].log, 1, k)) : k \in 0 .. Len(index[p].log)}

\* The calls that hold the writer of partition p.
Holders(p) == {i \in TxIds : tx[i].pc \in {"writing", "committed"} /\ tx[i].p = p}

C14_SingleWriter ==
    /\ [](\A p \in SheetNames :
            /\ Cardinality(Holders(p)) <= 1
            /\ \A i \in Holders(p) : lock[p] = i
            /\ index[p].docs = BatchesDocs(p, index[p].log))
    /\ [][\A i \in TxIds : \A p \in SheetNames :
            (tx[i].pc = "idle" /\ tx'[i].pc # "idle" /\ tx'[i].p = p /\ Holders(p) # {})
                => /\ tx'[i].pc = "returned" /\ tx'[i].out = "Failure"
                   /\ tx'[i].pending = <<>> /\ index' = index]_vars

\* C14 witness: two calls at once, each with documents written to the
\* writer of its own partition.
C14_Witness ==
    /\ tx[1].pc = "writing" /\ tx[2].pc = "writing" /\ tx[1].p # tx[2].p
    /\ tx[1].pending # <<>> /\ tx[2].pending # <<>>

----------------------------------------------------------------------------
(* SpecBuild: Index::ingest of batches in which a sheet may fail to build: *)
(* the data source cannot read it, or it has a column the partition's      *)
(* schema (that of the sheet the partition was created from) has no field  *)
(* for.                                                                    *)

\* Batches of one or two sheets, any sheet under either version's key.
BuildBatches(p) ==
    LET one == {<<SheetKey(v, p), s>> : v \in Versions, s \in SheetNames}
    IN {<<a>> : a \in one} \cup {<<a, b>> : a, b \in one}

InitBuild ==
    /\ rows \in {f \in RowChoices : /\ f[<<"A", "en">>] = RowKeys("A")
                                    /\ f[<<"A", "ja">>] = {<<1, 0>>, <<2, 0>>}}
    /\ index = EmptyIndex
    /\ meta = {}
    /\ ioFail = {}
    /\ srcFail \in {{}, {"A"}, {"B"}}
    /\ config = NoConfig
    /\ icall = NoCall
    /\ rcall = NoResolve
    /\ scall = NoSearch
    /\ TxIdle
    /\ PatchIdle
    /\ LoopIdle

NextBuild ==
    \/ \E p \in SheetNames : \E batch \in BuildBatches(p) : Ingest(p, batch)
    \/ IndexReturn

SpecBuild == InitBuild /\ [][NextBuild]_vars

\* A sheet whose documents can be built for partition p: it can be read and
\* the schema has a field for each of its columns in each language.
Buildable(p, s) ==
    /\ s \notin srcFail
    /\ \A c \in SeqToSet(Columns(s)) : \A l \in SeqToSet(Languages(s)) :
            HasField(index[p].schema, column_field_name(c, l))

\* The documents of the buildable sheets of a batch, in batch order.
RECURSIVE BuiltDocs(_, _)
BuiltDocs(p, batch) ==
    IF batch = <<>> THEN <<>>
    ELSE (IF Buildable(p, Head(batch)[2])
          THEN IntoValues(sheet_documents(Head(batch)[1], Head(batch)[2],
                                          index[p].schema).val, FALSE)
          ELSE <<>>)
         \o BuiltDocs(p, Tail(batch))

\* C15 (as claimed): every ingest returns Ok and commits the documents of
\* exactly the sheets of its batch that can be built, whatever the reason
\* the others cannot.
C15_FailedSheetSkipped ==
    [][\A p \in SheetNames :
        (icall.op = "none" /\ icall'.op = "ingest" /\ icall'.p = p)
            => /\ IsOk(icall'.out)
               /\ index'[p].docs = index[p].docs \o BuiltDocs(p, icall'.batch)]_vars


----------------------------------------------------------------------------
(* thaliak Provider::patch_list: the walk from the latest version of a     *)
(* repository down its prerequisite versions.                              *)

\* Most prerequisite versions one version names in the responses tried.
MaxPrereqs == 2

\* The version strings of a response, each written as its rank in string
\* order (patch names are string-sortable).
VersionStrings == {1, 2, 3}

\* A version the response does not list.
Unlisted == [listed |-> FALSE, is_active |-> FALSE, patches |-> <<>>,
             prerequisite_versions |-> {}]

\* What the response may say of one version string: nothing, or its
\* is_active flag, the sizes (i64) of its patches and the version strings
\* of its prerequisite versions.
VersionChoices ==
    {Unlisted}
    \cup {[listed |-> TRUE, is_active |-> a[1], patches |-> a[2],
           prerequisite_versions |-> pre] :
            a \in {<<TRUE, <<>>>>, <<TRUE, <<1>>>>, <<TRUE, <<-1>>>>,
                   <<TRUE, <<1, -1>>>>, <<FALSE, <<1>>>>},
            pre \in {s \in SUBSET VersionStrings : Cardinality(s) <= MaxPrereqs}}

\* The responses: the request fails, the response carries errors, it has
\* no data for the repository, or it has the repository's latest version
\* and the versions it lists.
Responses ==
    {[kind |-> k] : k \in {"http", "errors", "nodata"}}
    \cup {[kind |-> "data", latest_version |-> l, versions |-> vs] :
            l \in VersionStrings, vs \in [VersionStrings -> VersionChoices]}

\* `versions.get(name).copied()`: an Option as a sequence of at most one.
versions_get(name) ==
    IF repository.versions[name].listed THEN <<name>> ELSE <<>>

Recorded(patches) == {patches[i].name : i \in 1 .. Len(patches)}

\* The first of the candidates whatever their order.
first_unsorted(candidates) ==
    IF candidates = {} THEN <<>>
    ELSE <<CHOOSE s \in candidates : \A o \in candidates : s <= o>>

\* `sort_by(.. .reverse())` then `first()`: the greatest version string.
first_sorted(candidates) ==
    IF candidates = {} THEN <<>>
    ELSE <<CHOOSE s \in candidates : \A o \in candidates : s >= o>>

\* The filter on the prerequisite versions without the test on `patches`.
unseen_any(s, patches) == TRUE
\* `!patches.iter().any(|patch| patch.name == s.version_string)`
unseen(s, patches) == s \notin Recorded(patches)

\* The prerequisite versions of `version` not recorded in `patches`, listed
\* and active.
active_versions(version, patches) ==
    {s \in repository.versions[version].prerequisite_versions :
        /\ unseen(s, patches)
        /\ versions_get(s) # <<>>
        /\ repository.versions[s].is_active}

\* patch_list up to the loop: the request, the response's errors and data,
\* the lookup of the latest version.
PatchListCall ==
    /\ plist.pc = "idle"
    /\ plist' = IF repository.kind # "data"
                THEN [NoPatchList EXCEPT !.pc = "returned", !.out = Res("Failure", <<>>)]
                ELSE [NoPatchList EXCEPT
                        !.pc = "walk",
                        !.next_version = versions_get(repository.latest_version)]
    /\ UNCHANGED <<repository, txVars, indexVars, rcall, scall, loopVars>>

\* One iteration of `while let Some(version) = next_version`.
PatchListStep ==
    /\ plist.pc = "walk"
    /\ plist.next_version # <<>>
    /\ LET version == plist.next_version[1]
           found == repository.versions[version].patches
           patches == Append(plist.patches,
                             [name |-> version, size |-> found[1]])
       IN plist' =
            IF found = <<>>
            THEN [plist EXCEPT !.pc = "returned", !.out = Res("Failure", <<>>)]
            ELSE IF found[1] < 0
            THEN [plist EXCEPT !.pc = "returned", !.out = Res("panic", <<>>)]
            ELSE [plist EXCEPT
                    !.patches = patches,
                    !.next_version = first_sorted(active_versions(version, patches))]
    /\ UNCHANGED <<repository, txVars, indexVars, rcall, scall, loopVars>>

\* The loop ends: the patches reversed, as a NonEmpty or an error.
PatchListReturn ==
    /\ plist.pc = "walk"
    /\ plist.next_version = <<>>
    /\ plist' = [plist EXCEPT
                    !.pc = "returned",
                    !.patches = Reverse(plist.patches),
                    !.out = IF plist.patches = <<>> THEN Res("Failure", <<>>)
                            ELSE Res("ok", Reverse(plist.patches))]
    /\ UNCHANGED <<repository, txVars, indexVars, rcall, scall, loopVars>>

InitPatch ==
    /\ rows \in {f \in RowChoices : /\ f[<<"A", "en">>] = RowKeys("A")
                                    /\ f[<<"A", "ja">>] = {<<1, 0>>, <<2, 0>>}}
    /\ index = EmptyIndex
    /\ meta = {}
    /\ ioFail = {}
    /\ srcFail = {}
    /\ config = NoConfig
    /\ icall = NoCall
    /\ rcall = NoResolve
    /\ scall = NoSearch
    /\ TxIdle
    /\ LoopIdle
    /\ repository \in Responses
    /\ plist = NoPatchList

NextPatch ==
    \/ PatchListCall
    \/ PatchListStep
    \/ PatchListReturn

\* The future of patch_list is polled until it returns.
SpecPatch ==
    /\ InitPatch /\ [][NextPatch]_vars
    /\ WF_vars(PatchListCall) /\ WF_vars(PatchListStep) /\ WF_vars(PatchListReturn)


----------------------------------------------------------------------------
(* Claims about thaliak Provider::patch_list.                              *)

\* The version strings the response lists.
Listed ==
    IF repository.kind # "data" THEN {}
    ELSE {s \in VersionStrings : repository.versions[s].listed}

\* C23: the walk of patch_list ends for every response, whatever cycles
\* and self-references its prerequisite versions hold: an iteration that
\* records a patch records a version string not recorded before, so the
\* patches never hold a version string twice and are never more than the
\* version strings the response lists.
C23_WalkTerminates ==
    /\ <>(plist.pc = "returned")
    /\ [][Len(plist'.patches) > Len(plist.patches) =>
            /\ Len(plist'.patches) = Len(plist.patches) + 1
            /\ plist'.patches[Len(plist'.patches)].name \notin Recorded(plist.patches)
            /\ Recorded(plist'.patches) \subseteq Listed]_vars
    /\ [](\A i, j \in 1 .. Len(plist.patches) :
            plist.patches[i].name = plist.patches[j].name => i = j)
    /\ [](Len(plist.patches) <= Cardinality(Listed))

\* C23 witness: a list of three patches returned for a response in which
\* the latest version names itself as prerequisite and the versions below
\* it name the versions above them.
C23_Witness ==
    /\ plist.pc = "returned" /\ IsOk(plist.out) /\ Len(plist.out.val) = 3
    /\ repository.latest_version = 3
    /\ 3 \in repository.versions[3].prerequisite_versions
    /\ 3 \in repository.versions[2].prerequisite_versions
    /\ 2 \in repository.versions[1].prerequisite_versions


\* The version strings among the prerequisite versions of entry i + 1 of
\* the list that are listed, active and not recorded when it was visited
\* (the entries from i + 1 on).
Eligible(list, i) ==
    {s \in repository.versions[list[i + 1].name].prerequisite_versions :
        /\ s \in Listed
        /\ repository.versions[s].is_active
        /\ s \notin {list[k].name : k \in i + 1 .. Len(list)}}

\* C24: a list patch_list returns is oldest-first: its last entry is the
\* latest version, every entry before another is the greatest version
\* string among that one's prerequisite versions that are listed, active
\* and not recorded, and every entry but the last is active. The call
\* fails when the latest version is not listed and when the version it
\* visits has no patch.
C24_OldestFirst ==
    /\ []((plist.pc = "returned" /\ IsOk(plist.out)) =>
            LET list == plist.out.val
            IN /\ Len(list) >= 1
               /\ list[Len(list)].name = repository.latest_version
               /\ \A i \in 1 .. Len(list) - 1 :
                    /\ list[i].name \in Eligible(list, i)
                    /\ \A s \in Eligible(list, i) : s <= list[i].name
                    /\ repository.versions[list[i].name].is_active)
    /\ []((plist.pc = "returned" /\ repository.kind = "data"
           /\ repository.latest_version \notin Listed) =>
            plist.out = Res("Failure", <<>>))
    /\ [][(/\ plist.pc = "walk" /\ plist.next_version # <<>>
           /\ repository.versions[plist.next_version[1]].patches = <<>>) =>
            (plist'.pc = "returned" /\ plist'.out = Res("Failure", <<>>))]_vars

\* C24 witness: the latest version names two listed, active versions as
\* prerequisites; the list returned holds the greater of them before the
\* latest, and not the other.
C24_Witness ==
    /\ plist.pc = "returned" /\ IsOk(plist.out)
    /\ repository.latest_version = 3
    /\ repository.versions[3].prerequisite_versions = {1, 2}
    /\ repository.versions[1].is_active /\ repository.versions[1].patches = <<1>>
    /\ repository.versions[2].is_active
    /\ [k \in 1 .. Len(plist.out.val) |-> plist.out.val[k].name] = <<2, 3>>

============================================================================
